---------------------------- MODULE Spec2Model ----------------------------
(***************************************************************************)
(* A model of the frame-submission core of glimmer:                        *)
(*   - the ring allocator for transient upload memory                      *)
(*       (crates/graphics/src/memory/temp_allocator.rs),                   *)
(*   - the generational handle pool                                        *)
(*       (crates/structures/src/generational_pool.rs),                     *)
(*   - the fence-gated submission queue and the Platform that drives it    *)
(*       (crates/graphics/src/dx12/queue.rs,                               *)
(*        crates/plinth/src/platform/win32/mod.rs).                        *)
(* Each component has a specification of its own (SpecRing, SpecPool,      *)
(* SpecQueue); the variables of the other components stay at their         *)
(* initial value.                                                          *)
(***************************************************************************)
EXTENDS Integers, Sequences, FiniteSets, TLC

VARIABLES
    \* ---- build profile and abnormal termination
    overflow_checks,  \* TRUE: arithmetic overflow panics (debug profile);
                      \* FALSE: it wraps (release profile)
    panicked,         \* a panic (failed assertion, unwrap, overflow) unwound the caller
    \* ---- temp_allocator::Allocator / FrameAllocator
    allocator,        \* [capacity, bytes_freed, bytes_allocated]
    frame,            \* NoFrame, or the live FrameAllocator
    frame_allocs,     \* ghost: the non-empty Allocations handed out by the live FrameAllocator
    markers,          \* ghost: finished frames not yet freed, oldest first
    in_order,         \* ghost: every free_frame so far released the oldest marker
    ring_last,        \* ghost: the last allocator call and what it returned
    \* ---- GenerationalPool
    items,            \* Vec<Slot<T>>
    free_list,        \* InlineFreeList: [next, is_free]
    history,          \* ghost: every insert, in order: [handle, value, removed]
    freed_order,      \* ghost: the slots emptied and open to reuse, in the order
                      \* in which they were emptied
    pool_last,        \* ghost: the last pool call and what it returned
    \* ---- queue::Graphics, the GPU behind it, and the Platform
    pc,               \* where the CPU thread is
    next_value,       \* Graphics::next_value
    last_value,       \* Graphics::last_value
    commands,         \* Graphics::commands: closed command lists kept for reuse (a count)
    submissions,      \* Graphics::submissions (VecDeque<Submission<FrameMarker>>)
    allocators_created, \* number of ID3D12CommandAllocator objects created so far
    gpu_queue,        \* commands the ID3D12CommandQueue has not yet processed
    fence,            \* ID3D12Fence::GetCompletedValue()
    submitted,        \* ghost: every submit, in order
    \* ---- BlockAllocator
    blocks,           \* Box<[Block]>: [start, next] per block
    first_free_block, \* BlockAllocator::first_free_block
    outstanding,      \* ghost: offsets allocated and not freed since
    valid_frees,      \* ghost: every free so far released an outstanding offset
    expected,         \* ghost, kept while valid_frees: free offsets, the most
                      \* recently freed first, then the never allocated ones
                      \* in ascending order
    block_last,       \* ghost: the last BlockAllocator call and what it returned
    \* ---- Surface
    render_targets,   \* Surface::render_targets: how many times ResizeBuffers has
                      \* replaced the swap-chain buffers they wrap
    target_last_use,  \* Image::last_use of the render target that is drawn to
    \* ---- GraphicsContext
    image_handles,    \* GraphicsContext::image_handles: the last_use of every
                      \* platform::Image the pool holds
    \* ---- RenderGraph
    nodes,            \* RenderGraph::nodes; the node of index i is nodes[i + 1]
    imm_indices,      \* RenderGraph::imm_indices
    imm_vertices,     \* RenderGraph::imm_vertices.len()
    imm_rect_vertices,\* RenderGraph::imm_rect_vertices.len()
    appended,         \* ghost: one record for every draw call that returned
    \* ---- FlagVec
    flags,            \* the FlagVec: [data, length]
    flag_calls,       \* ghost: every set call so far, with what it returned and
                      \* the len() after it
    \* ---- renderer::backend::RingAllocator
    ring_allocator,   \* the RingAllocator: [capacity, heap_ptr, bytes_allocated,
                      \* bytes_deallocated, allocations_served, allocations_freed]
    ring_held,        \* ghost: the Allocations the caller holds, oldest first
    ring_call,        \* ghost: the last RingAllocator call and what it returned
    \* ---- renderer::backend::dx12::CopyQueue
    copy_queue,       \* the CopyQueue: [flushing, fence_value, images,
                      \* buffer_allocator, list_closed, waiting]
    copy_gpu,         \* its ID3D12CommandQueue and ID3D12Fence: [commands, fence]
    copy_last         \* ghost: the last CopyQueue call that returned

commonVars == <<overflow_checks, panicked>>
ringVars   == <<allocator, frame, frame_allocs, markers, in_order, ring_last>>
poolVars   == <<items, free_list, history, freed_order, pool_last>>
queueVars  == <<pc, next_value, last_value, commands, submissions,
                allocators_created, gpu_queue, fence, submitted>>
blockVars  == <<blocks, first_free_block, outstanding, valid_frees, expected,
                block_last>>
surfaceVars == <<render_targets, target_last_use>>
imageVars  == <<image_handles>>
graphVars  == <<nodes, imm_indices, imm_vertices, imm_rect_vertices, appended>>
flagVars   == <<flags, flag_calls>>
backendVars == <<ring_allocator, ring_held, ring_call>>
copyVars   == <<copy_queue, copy_gpu, copy_last>>
vars       == <<commonVars, ringVars, poolVars, queueVars, blockVars, surfaceVars,
                imageVars, graphVars, flagVars, backendVars, copyVars>>

---------------------------------------------------------------------------
(* Bounds of the model *)

\* capacity of the ring buffer, in bytes (the tests use 100, Platform 20 MiB)
Capacity == 6
\* the monotonic byte counters are explored up to this value
MaxVirtual == Capacity + 2
\* finished frames that may be outstanding at once
MaxFrames == 2
\* non-empty allocations made through one FrameAllocator
MaxAllocs == 2

Alignments == {1, 4}
Sizes == {0, 1, 2, 3, Capacity, Capacity + 1}

\* Stand-in for 2^64 in wrapping u64 arithmetic: larger than every size,
\* capacity and counter of the model, so every comparison against a wrapped
\* difference has the outcome it has in 64 bits.
U64Modulus == 2^30

Min(a, b) == IF a <= b THEN a ELSE b
Max(a, b) == IF a >= b THEN a ELSE b

---------------------------------------------------------------------------
(* temp_allocator.rs *)

NoFrame == [open |-> FALSE]
NoCall  == [op |-> "none"]

\* fn next_multiple_of(a, b)
NextMultipleOf(a, b) ==
    IF a % b = 0 THEN a ELSE a + b - (a % b)

\* a - b on u64 with overflow checks off
WrappingSub(a, b) ==
    IF a >= b THEN a - b ELSE U64Modulus - (b - a)

\* Allocator::new(capacity, base_ptr)
AllocatorNew(capacity) ==
    [capacity |-> capacity, bytes_freed |-> 0, bytes_allocated |-> 0]

\* mutant: the capacity test off by one
ExceedsCapacitySlip(size, capacity) ==
    size >= capacity

\* the test `size > self.allocator.capacity` of FrameAllocator::allocate
ExceedsCapacity(size, capacity) ==
    size > capacity

\* The placement decision of FrameAllocator::allocate (the match on
\* tail_ptr.cmp(&base_ptr)): "Align", "Wrap" or "None".
Adjust(capacity, tail_ptr, base_ptr, aligned_ptr, size) ==
    IF tail_ptr < base_ptr
    THEN \* [ free | used | free ]
         IF WrappingSub(capacity, aligned_ptr) >= size THEN "Align"
         ELSE IF tail_ptr >= size THEN "Wrap"
         ELSE "None"
    ELSE IF tail_ptr = base_ptr
    THEN \* [ free | free ]
         IF WrappingSub(capacity, aligned_ptr) >= size THEN "Align" ELSE "Wrap"
    ELSE \* [ used | free | used ]
         IF WrappingSub(tail_ptr, aligned_ptr) > size THEN "Align" ELSE "None"

\* The unsigned subtractions FrameAllocator::allocate evaluates, and whether
\* one of them underflows: capacity - aligned_ptr (tail <= base),
\* tail_ptr - aligned_ptr (tail > base), and the `available` field of the
\* OutOfMemory value, which ok_or evaluates eagerly on every call.
AllocateUnderflows(a, bytes_allocated, alignment) ==
    LET tail_ptr    == a.bytes_freed % a.capacity
        base_ptr    == bytes_allocated % a.capacity
        aligned_ptr == NextMultipleOf(base_ptr, alignment)
    IN  \/ tail_ptr <= base_ptr /\ aligned_ptr > a.capacity
        \/ tail_ptr > base_ptr /\ aligned_ptr > tail_ptr
        \/ bytes_allocated - a.bytes_freed > a.capacity

\* FrameAllocator::allocate(size, alignment) on allocator a with the frame's
\* cursor bytes_allocated: what it returns, and the frame's cursor afterwards.
Allocate(a, bytes_allocated, size, alignment, checks) ==
    LET tail_ptr    == a.bytes_freed % a.capacity
        base_ptr    == bytes_allocated % a.capacity
        aligned_ptr == NextMultipleOf(base_ptr, alignment)
        adjust      == Adjust(a.capacity, tail_ptr, base_ptr, aligned_ptr, size)
        adjust_amount == IF adjust = "Align" THEN aligned_ptr - base_ptr
                         ELSE a.capacity - base_ptr
        heap_ptr    == IF adjust = "Align" THEN aligned_ptr ELSE 0
    IN  IF ExceedsCapacity(size, a.capacity)
        THEN [kind |-> "InsufficientCapacity", bytes_allocated |-> bytes_allocated]
        ELSE IF checks /\ AllocateUnderflows(a, bytes_allocated, alignment)
        THEN [kind |-> "Panic", bytes_allocated |-> bytes_allocated]
        ELSE IF adjust = "None"
        THEN [kind |-> "OutOfMemory", bytes_allocated |-> bytes_allocated,
              capacity |-> a.capacity,
              available |-> WrappingSub(a.capacity, bytes_allocated - a.bytes_freed),
              requested |-> size]
        ELSE [kind |-> "Ok", bytes_allocated |-> bytes_allocated + adjust_amount + size,
              size |-> size,
              virtual_offset |-> bytes_allocated + adjust_amount,
              heap_offset |-> heap_ptr]

\* The Allocation of a successful call
AllocationOf(r) ==
    [size |-> r.size, virtual_offset |-> r.virtual_offset, heap_offset |-> r.heap_offset]

\* FrameAllocator::new(allocator)
FrameAllocatorNew(a) ==
    [open |-> TRUE,
     bytes_allocated_at_start |-> a.bytes_allocated,
     bytes_allocated |-> a.bytes_allocated]

\* FrameAllocator::finish: the marker it returns
FinishMarker(f) ==
    [end |-> f.bytes_allocated, start |-> f.bytes_allocated_at_start]

\* mutant: finish leaves the parent allocator as it was
FinishAllocatorSlip(a, f) ==
    a

\* FrameAllocator::finish: the parent allocator afterwards
FinishAllocator(a, f) ==
    [a EXCEPT !.bytes_allocated = f.bytes_allocated]

\* the assertion of Allocator::free_frame
FreeFrameAssertion(a, marker) ==
    marker.start = a.bytes_freed

\* mutant: the freed cursor advanced by marker.end instead of the frame's length
FreeFrameAllocatorSlip(a, marker) ==
    [a EXCEPT !.bytes_freed = a.bytes_freed + marker.end]

\* Allocator::free_frame past its assertion
FreeFrameAllocator(a, marker) ==
    [a EXCEPT !.bytes_freed = a.bytes_freed + (marker.end - marker.start)]

---------------------------------------------------------------------------
(* The ring allocator driven by an arbitrary caller *)

\* Allocator::begin_frame
BeginFrame ==
    /\ ~panicked
    /\ ~frame.open
    /\ Len(markers) < MaxFrames
    /\ frame' = FrameAllocatorNew(allocator)
    /\ frame_allocs' = {}
    /\ ring_last' = [op |-> "begin_frame"]
    /\ UNCHANGED <<allocator, markers, in_order, commonVars, poolVars, queueVars,
                   blockVars, surfaceVars, imageVars, graphVars, flagVars, backendVars, copyVars>>

\* FrameAllocator::allocate
FrameAllocate(size, alignment) ==
    /\ ~panicked
    /\ frame.open
    /\ frame.bytes_allocated <= MaxVirtual
    /\ Cardinality(frame_allocs) < MaxAllocs
    /\ LET r == Allocate(allocator, frame.bytes_allocated, size, alignment,
                         overflow_checks)
       IN  /\ panicked' = (r.kind = "Panic")
           /\ frame' = [frame EXCEPT !.bytes_allocated = r.bytes_allocated]
           /\ frame_allocs' = IF r.kind = "Ok" /\ size >= 1
                              THEN frame_allocs \cup {AllocationOf(r)}
                              ELSE frame_allocs
           /\ ring_last' = [op |-> "allocate", size |-> size,
                            alignment |-> alignment, result |-> r,
                            before |-> frame.bytes_allocated]
    /\ UNCHANGED <<allocator, markers, in_order, overflow_checks, poolVars, queueVars,
                   blockVars, surfaceVars, imageVars, graphVars, flagVars, backendVars, copyVars>>

\* FrameAllocator::finish
FrameFinish ==
    /\ ~panicked
    /\ frame.open
    /\ allocator' = FinishAllocator(allocator, frame)
    /\ markers' = Append(markers, [marker |-> FinishMarker(frame),
                                   allocs |-> frame_allocs])
    /\ frame' = NoFrame
    /\ frame_allocs' = {}
    /\ ring_last' = [op |-> "finish", marker |-> FinishMarker(frame)]
    /\ UNCHANGED <<in_order, commonVars, poolVars, queueVars, blockVars, surfaceVars,
                   imageVars, graphVars, flagVars, backendVars, copyVars>>

\* a FrameAllocator dropped without finish
FrameDrop ==
    /\ ~panicked
    /\ frame.open
    /\ frame' = NoFrame
    /\ frame_allocs' = {}
    /\ ring_last' = [op |-> "drop"]
    /\ UNCHANGED <<allocator, markers, in_order, commonVars, poolVars, queueVars,
                   blockVars, surfaceVars, imageVars, graphVars, flagVars, backendVars, copyVars>>

\* Allocator::free_frame(markers[i].marker)
FreeFrame(i) ==
    /\ ~panicked
    /\ ~frame.open
    /\ i \in DOMAIN markers
    /\ LET m == markers[i].marker
           ok == FreeFrameAssertion(allocator, m)
       IN  /\ panicked' = ~ok
           /\ allocator' = IF ok THEN FreeFrameAllocator(allocator, m) ELSE allocator
           /\ markers' = IF ok
                         THEN [j \in 1 .. (Len(markers) - 1) |->
                                 IF j < i THEN markers[j] ELSE markers[j + 1]]
                         ELSE markers
           /\ in_order' = (in_order /\ i = 1)
           /\ ring_last' = [op |-> "free_frame", marker |-> m, index |-> i,
                            passed |-> ok, before |-> allocator.bytes_freed]
    /\ UNCHANGED <<frame, frame_allocs, overflow_checks, poolVars, queueVars,
                   blockVars, surfaceVars, imageVars, graphVars, flagVars, backendVars, copyVars>>

---------------------------------------------------------------------------
(* Ring allocator: properties *)

\* the Allocations of the live FrameAllocator and of every finished frame
\* whose marker has not been freed
LiveAllocs ==
    frame_allocs \cup UNION {markers[i].allocs : i \in DOMAIN markers}

HeapRange(a) == a.heap_offset .. (a.heap_offset + a.size - 1)

LiveBytes(allocs) == UNION {HeapRange(a) : a \in allocs}

AllocateReturned(kind) ==
    /\ ring_last.op = "allocate"
    /\ ring_last.result.kind = kind

\* the Allocation the last call returned, and the ones that were live before it
LastAllocation == AllocationOf(ring_last.result)
EarlierAllocs == LiveAllocs \ {LastAllocation}

\* C3: with markers freed in creation order, a successful allocate of
\* size >= 1 returns a heap range that intersects no earlier allocation of
\* the current frame or of a finished, not yet freed frame.
C3_AllocationsDisjoint ==
    (in_order /\ AllocateReturned("Ok") /\ ring_last.size >= 1)
        => HeapRange(LastAllocation) \cap LiveBytes(EarlierAllocs) = {}

\* a properly aligned, non-wrapping range of `size` bytes disjoint from `bytes`
FreeRangeExists(capacity, bytes, size, alignment) ==
    \E p \in 0 .. (capacity - size) :
        /\ p % alignment = 0
        /\ (p .. (p + size - 1)) \cap bytes = {}

\* C4: for size <= capacity, allocate returns OutOfMemory exactly when no
\* aligned, non-wrapping range of size bytes is disjoint from the live bytes.
C4_OutOfMemoryIffNoGap ==
    (in_order /\ ring_last.op = "allocate" /\ ring_last.size <= allocator.capacity)
        => (ring_last.result.kind = "OutOfMemory"
              <=> ~FreeRangeExists(allocator.capacity,
                                   LiveBytes(IF ring_last.result.kind = "Ok"
                                             THEN EarlierAllocs ELSE LiveAllocs),
                                   ring_last.size, ring_last.alignment))

\* C5: allocate returns InsufficientCapacity exactly when size > capacity,
\* whatever the cursors and the alignment.
C5_InsufficientCapacityIffTooLarge ==
    ring_last.op = "allocate"
        => (ring_last.result.kind = "InsufficientCapacity"
              <=> ring_last.size > allocator.capacity)

C5_Witness ==
    /\ AllocateReturned("InsufficientCapacity")
    /\ ring_last.before > allocator.bytes_freed
    /\ markers # <<>>

\* C6: free_frame passes its assertion exactly when marker.start is the
\* bytes_freed cursor; freeing in creation order always passes, keeps
\* bytes_freed <= bytes_allocated, and ends with bytes_freed = bytes_allocated.
C6_FreeFrameInOrder ==
    /\ ring_last.op = "free_frame"
         => /\ ring_last.passed <=> (ring_last.marker.start = ring_last.before)
            /\ panicked <=> ~ring_last.passed
            /\ (in_order => ring_last.passed)
    /\ in_order
         => /\ allocator.bytes_freed <= allocator.bytes_allocated
            /\ (markers = <<>> => allocator.bytes_freed = allocator.bytes_allocated)

C6_Witness ==
    /\ ring_last.op = "free_frame"
    /\ ring_last.passed
    /\ in_order
    /\ markers = <<>>
    /\ ring_last.marker.start > 0
    /\ ring_last.marker.end > ring_last.marker.start

\* C7: a successful allocate returns a heap_offset that is a multiple of the
\* alignment, with heap_offset + size <= capacity, and a virtual_offset
\* congruent to heap_offset modulo capacity.
C7_AlignedAndInsideBuffer ==
    AllocateReturned("Ok")
        => /\ ring_last.result.heap_offset % ring_last.alignment = 0
           /\ ring_last.result.heap_offset + ring_last.size <= allocator.capacity
           /\ ring_last.result.virtual_offset % allocator.capacity
                = ring_last.result.heap_offset % allocator.capacity

\* bytes_allocated - bytes_freed, with the cursor of the live frame where
\* there is one
BytesInUse ==
    (IF frame.open THEN frame.bytes_allocated ELSE allocator.bytes_allocated)
        - allocator.bytes_freed

\* C35: while frames are freed in creation order, the bytes in use,
\* bytes_allocated - bytes_freed counted with the live frame's cursor, never
\* exceed the capacity, so that capacity - (bytes_allocated - bytes_freed)
\* does not underflow.
C35_BytesInUseWithinCapacity ==
    in_order => BytesInUse <= allocator.capacity

\* the locals of the last FrameAllocator::allocate call
LastTailPtr == allocator.bytes_freed % allocator.capacity
LastBasePtr == ring_last.before % allocator.capacity
LastAlignedPtr == NextMultipleOf(LastBasePtr, ring_last.alignment)

\* C36: for size <= capacity, FrameAllocator::allocate evaluates its
\* unsigned subtractions without underflow: aligned_ptr <= capacity where
\* capacity - aligned_ptr is computed (tail <= head), aligned_ptr <= tail_ptr
\* where tail_ptr - aligned_ptr is computed (tail > head); the call returns
\* a result and does not panic.
C36_SubtractionsDoNotUnderflow ==
    (in_order /\ ring_last.op = "allocate" /\ ring_last.size <= allocator.capacity)
        => /\ LastTailPtr <= LastBasePtr => LastAlignedPtr <= allocator.capacity
           /\ LastTailPtr > LastBasePtr => LastAlignedPtr <= LastTailPtr
           /\ ring_last.result.kind # "Panic"

\* a step in which the live FrameAllocator is finished
FinishStep ==
    frame.open /\ ~frame'.open /\ ring_last'.op = "finish"

\* what a step does to the parent Allocator while a FrameAllocator is live:
\* nothing, unless it is finish, which commits the frame's cursor and
\* returns the marker of the frame
CommitOnlyByFinish ==
    /\ (frame.open /\ ~FinishStep) => allocator' = allocator
    /\ (~frame.open /\ frame'.open) =>
          /\ allocator' = allocator
          /\ frame'.bytes_allocated = allocator.bytes_allocated
    /\ FinishStep =>
          LET marker == ring_last'.marker
          IN  /\ allocator'.bytes_allocated = frame.bytes_allocated
              /\ allocator'.bytes_freed = allocator.bytes_freed
              /\ allocator'.capacity = allocator.capacity
              /\ marker.start = allocator.bytes_allocated
              /\ marker.end = allocator'.bytes_allocated
              /\ \A a \in frame_allocs :
                    /\ marker.start <= a.virtual_offset
                    /\ a.virtual_offset + a.size <= marker.end

\* C33: allocations made through a FrameAllocator reach the parent Allocator
\* only by finish: while the frame is live, and when it is dropped without
\* finish, the Allocator is unchanged; finish sets bytes_allocated to the
\* frame's cursor and returns a marker from the bytes_allocated at
\* begin_frame to the bytes_allocated after finish, padding included.
C33_CommitOnlyByFinish ==
    [][CommitOnlyByFinish]_vars

C33_Witness ==
    /\ ring_last.op = "finish"
    /\ Len(markers) = 2
    /\ \E a \in markers[2].allocs : a.virtual_offset > markers[2].marker.start
    /\ Cardinality(markers[2].allocs) = 2
    /\ allocator.bytes_allocated = markers[2].marker.end

---------------------------------------------------------------------------
(* renderer/src/backend/ring_allocator.rs *)

\* addresses of the heap the RingAllocator is built on: aligned, and off by
\* one byte as in the test with_heap
HeapPtrs == {0, 1}
\* allocate calls that return an Allocation
MaxServed == 3

\* stand-in for u32::MAX, the per-allocation limit that allocate asserts:
\* above every capacity of the model and below U64Modulus
AllocationLimit == 2^20

\* backend::next_multiple_of(a, b)
BackendNextMultipleOf(a, b) ==
    IF a % b = 0 THEN a ELSE a + b - (a % b)

\* <*mut c_void>::align_offset(align) of the pointer at address ptr
AlignOffset(ptr, align) ==
    (align - (ptr % align)) % align

\* RingAllocator::new(capacity, heap_ptr)
RingAllocatorNew(capacity, heap_ptr) ==
    [capacity |-> capacity, heap_ptr |-> heap_ptr, bytes_allocated |-> 0,
     bytes_deallocated |-> 0, allocations_served |-> 0, allocations_freed |-> 0]

\* the locals of RingAllocator::allocate
HeapTail(r) == r.bytes_deallocated % r.capacity
HeapHead(r) == r.bytes_allocated % r.capacity
AlignedHeadAmount(r, align) == AlignOffset(r.heap_ptr + HeapHead(r), align)
AlignedHead(r, align) == HeapHead(r) + AlignedHeadAmount(r, align)
AlignedOffset(r, align) == r.bytes_allocated + AlignedHeadAmount(r, align)
WrappedOffset(r, align) ==
    r.bytes_allocated + (r.capacity - HeapHead(r)) + AlignOffset(r.heap_ptr, align)

\* the arm Ordering::Greater of the match on heap_head.cmp(&heap_tail)
GreaterArm(r, aligned_size, align) ==
    IF AlignedHead(r, align) + aligned_size <= r.capacity
    THEN [kind |-> "Ok", offset |-> AlignedOffset(r, align),
          bytes_deallocated |-> r.bytes_deallocated]
    ELSE IF HeapTail(r) >= aligned_size
    THEN [kind |-> "Ok", offset |-> WrappedOffset(r, align),
          bytes_deallocated |-> r.bytes_deallocated]
    ELSE [kind |-> "OutOfMemory", bytes_deallocated |-> r.bytes_deallocated]

\* the arm Ordering::Less: heap_tail - aligned_head underflows when the
\* aligned head lies past the tail, with a panic if overflow checks are on
LessArm(r, aligned_size, align, checks) ==
    IF checks /\ AlignedHead(r, align) > HeapTail(r)
    THEN [kind |-> "Panic", bytes_deallocated |-> r.bytes_deallocated]
    ELSE IF WrappingSub(HeapTail(r), AlignedHead(r, align)) >= aligned_size
    THEN [kind |-> "Ok", offset |-> AlignedOffset(r, align),
          bytes_deallocated |-> r.bytes_deallocated]
    ELSE [kind |-> "OutOfMemory", bytes_deallocated |-> r.bytes_deallocated]

\* mutant: the tail is moved past the alignment gap before the ring is
\* found to be full
EqualArmSlip(r, aligned_size, align) ==
    IF r.bytes_allocated = r.bytes_deallocated
    THEN IF AlignedHead(r, align) + aligned_size <= r.capacity
         THEN [kind |-> "Ok", offset |-> AlignedOffset(r, align),
               bytes_deallocated |->
                   r.bytes_deallocated + AlignedHeadAmount(r, align)]
         ELSE [kind |-> "Ok", offset |-> WrappedOffset(r, align),
               bytes_deallocated |-> WrappedOffset(r, align)]
    ELSE [kind |-> "OutOfMemory",
          bytes_deallocated |-> r.bytes_deallocated + AlignedHeadAmount(r, align)]

\* the arm Ordering::Equal: the only arm that writes to the allocator
EqualArm(r, aligned_size, align) ==
    IF r.bytes_allocated = r.bytes_deallocated
    THEN IF AlignedHead(r, align) + aligned_size <= r.capacity
         THEN [kind |-> "Ok", offset |-> AlignedOffset(r, align),
               bytes_deallocated |->
                   r.bytes_deallocated + AlignedHeadAmount(r, align)]
         ELSE [kind |-> "Ok", offset |-> WrappedOffset(r, align),
               bytes_deallocated |-> WrappedOffset(r, align)]
    ELSE [kind |-> "OutOfMemory", bytes_deallocated |-> r.bytes_deallocated]

\* RingAllocator::allocate(size, align) up to the `?`: the offset found, or
\* the error, and bytes_deallocated as the match leaves it
AllocOffset(r, size, align, checks) ==
    LET aligned_size == BackendNextMultipleOf(size, align)
    IN  IF aligned_size > AllocationLimit
        THEN [kind |-> "Panic", bytes_deallocated |-> r.bytes_deallocated]
        ELSE IF aligned_size > r.capacity
        THEN [kind |-> "InsufficientCapacity",
              bytes_deallocated |-> r.bytes_deallocated]
        ELSE IF HeapHead(r) > HeapTail(r) THEN GreaterArm(r, aligned_size, align)
        ELSE IF HeapHead(r) < HeapTail(r) THEN LessArm(r, aligned_size, align, checks)
        ELSE EqualArm(r, aligned_size, align)

\* RingAllocator::allocate(size, align): what it returns and the allocator
\* afterwards.  The debug assertion behind the two assignments fails, with
\* the assignments made, when the region found runs over the end of the heap.
RingAllocatorAllocate(r, size, align, checks) ==
    LET aligned_size == BackendNextMultipleOf(size, align)
        found        == AllocOffset(r, size, align, checks)
        matched      == [r EXCEPT !.bytes_deallocated = found.bytes_deallocated]
    IN  IF found.kind # "Ok"
        THEN [kind |-> found.kind, allocator |-> matched]
        ELSE LET served == [matched EXCEPT
                               !.bytes_allocated = found.offset + aligned_size,
                               !.allocations_served = r.allocations_served + 1]
                 alloc  == [size |-> aligned_size,
                            alloc_id |-> r.allocations_served,
                            offset |-> found.offset]
             IN  IF checks /\ (found.offset % r.capacity) + aligned_size > r.capacity
                 THEN [kind |-> "Panic", allocator |-> served]
                 ELSE [kind |-> "Ok", allocator |-> served, alloc |-> alloc]

\* the assert_eq! of RingAllocator::free
RingFreeAssertion(r, allocation) ==
    allocation.alloc_id = r.allocations_freed

\* RingAllocator::free(allocation) past its assertion
RingAllocatorFree(r, allocation) ==
    [r EXCEPT !.allocations_freed = r.allocations_freed + 1,
              !.bytes_deallocated = allocation.offset + allocation.size]

\* RingAllocator::allocate
RingAllocate(size, align) ==
    /\ ~panicked
    /\ ring_allocator.allocations_served < MaxServed
    /\ LET r == RingAllocatorAllocate(ring_allocator, size, align, overflow_checks)
       IN  /\ panicked' = (r.kind = "Panic")
           /\ ring_allocator' = r.allocator
           /\ ring_held' = IF r.kind = "Ok" THEN Append(ring_held, r.alloc)
                           ELSE ring_held
           /\ ring_call' = [op |-> "allocate", size |-> size, align |-> align,
                            kind |-> r.kind]
    /\ UNCHANGED <<overflow_checks, ringVars, poolVars, queueVars, blockVars,
                   surfaceVars, imageVars, graphVars, flagVars, copyVars>>

\* RingAllocator::free(ring_held[i])
RingFree(i) ==
    /\ ~panicked
    /\ i \in DOMAIN ring_held
    /\ LET ok == RingFreeAssertion(ring_allocator, ring_held[i])
       IN  /\ panicked' = ~ok
           /\ ring_allocator' = IF ok
                                THEN RingAllocatorFree(ring_allocator, ring_held[i])
                                ELSE ring_allocator
           /\ ring_held' = [j \in 1 .. (Len(ring_held) - 1) |->
                              IF j < i THEN ring_held[j] ELSE ring_held[j + 1]]
           /\ ring_call' = [op |-> "free", passed |-> ok]
    /\ UNCHANGED <<overflow_checks, ringVars, poolVars, queueVars, blockVars,
                   surfaceVars, imageVars, graphVars, flagVars, copyVars>>

\* the fields that the test with_heap compares around a failed allocation
Counters(r) ==
    <<r.bytes_allocated, r.bytes_deallocated, r.allocations_served,
      r.allocations_freed>>

\* error values of allocate
Failed == {"OutOfMemory", "InsufficientCapacity"}

\* a failed FrameAllocator::allocate leaves the frame and its Allocator as
\* they were
FailedFrameAllocate ==
    (ring_last'.op = "allocate" /\ ring_last'.result.kind \in Failed)
        => (frame' = frame /\ allocator' = allocator)

\* a failed RingAllocator::allocate leaves the four counters as they were
FailedRingAllocate ==
    (ring_call'.op = "allocate" /\ ring_call'.kind \in Failed)
        => Counters(ring_allocator') = Counters(ring_allocator)

\* C34: an allocation that fails with OutOfMemory or InsufficientCapacity
\* changes nothing: FrameAllocator::allocate leaves the frame's
\* bytes_allocated and the Allocator untouched, and RingAllocator::allocate
\* leaves bytes_allocated, bytes_deallocated, allocations_served and
\* allocations_freed untouched.
C34_FailedAllocationChangesNothing ==
    [][FailedFrameAllocate /\ FailedRingAllocate]_vars

C34_Witness ==
    /\ ring_last.op = "allocate"
    /\ ring_last.result.kind = "OutOfMemory"
    /\ frame.bytes_allocated > frame.bytes_allocated_at_start

---------------------------------------------------------------------------
(* flagvec.rs *)

\* bits per word of FlagVec::data
FlagWordBits == 64

\* FlagVec::new
FlagVecNew == [data |-> <<>>, length |-> 0]

\* FlagVec::get(index); data[k] is the set of bit positions set in word k
FlagVecGet(fv, index) ==
    LET int_index == index \div FlagWordBits
        bit_index == index % FlagWordBits
    IN  IF int_index >= Len(fv.data) THEN FALSE
        ELSE bit_index \in fv.data[int_index + 1]

\* FlagVec::len
FlagVecLen(fv) == fv.length

\* FlagVec::set(index, value): the old value it returns
FlagVecSetReturns(fv, index) ==
    LET int_index == index \div FlagWordBits
        bit_index == index % FlagWordBits
    IN  IF int_index >= Len(fv.data) THEN FALSE
        ELSE bit_index \in fv.data[int_index + 1]

\* FlagVec::set(index, value): the vector afterwards
FlagVecSet(fv, index, value) ==
    LET int_index == index \div FlagWordBits
        bit_index == index % FlagWordBits
        grown == IF int_index >= Len(fv.data)
                 THEN [data |-> fv.data \o
                                  [k \in 1 .. (int_index + 1 - Len(fv.data)) |-> {}],
                       length |-> index + 1]
                 ELSE fv
    IN  [grown EXCEPT !.data[int_index + 1] =
            IF value THEN @ \cup {bit_index} ELSE @ \ {bit_index}]

\* set calls made on one FlagVec
MaxSets == 3
\* the indices passed to set and get: the first bits of the first two words
\* and the last bit of the first word
FlagIndices == {0, 1, FlagWordBits - 1, FlagWordBits, FlagWordBits + 1}

\* FlagVec::set(index, value) called on the vector
FlagSet(index, value) ==
    /\ Len(flag_calls) < MaxSets
    /\ flags' = FlagVecSet(flags, index, value)
    /\ flag_calls' = Append(flag_calls,
                            [index |-> index, value |-> value,
                             returned |-> FlagVecSetReturns(flags, index),
                             len |-> FlagVecLen(flags')])
    /\ UNCHANGED <<commonVars, ringVars, poolVars, queueVars, blockVars, surfaceVars,
                   imageVars, graphVars, backendVars, copyVars>>

---------------------------------------------------------------------------
(* generational_pool.rs *)

\* stand-in for u32::MAX: generations and indices are U32Max at most
U32Max == 3
\* inserts explored
MaxInserts == 4
\* The pool never inspects a value (T is a type parameter): the n-th insert
\* stores n, so that every stored value is told apart from every other, and
\* a write through get_mut stores Mutated.
FreshValue == Len(history) + 1
Mutated == 0

None == [some |-> FALSE]
Some(x) == [some |-> TRUE, v |-> x]

\* mutant: index and generation packed the wrong way round
HandleFromSlip(index, generation) ==
    index * (U32Max + 1) + generation

\* impl From<Handle_> for Handle<T>: generation << 32 | index, at the model's width
HandleFrom(index, generation) ==
    generation * (U32Max + 1) + index

\* impl From<Handle<T>> for Handle_
Handle_From(handle) ==
    [index |-> handle % (U32Max + 1), generation |-> handle \div (U32Max + 1)]

\* Handle::raw
Raw(handle) == handle % (U32Max + 1)

\* the union Item<T>: the slot's memory holds either a next link or a value
ItemNext(next) == [tag |-> "next", next |-> next]
ItemValue(value) == [tag |-> "value", value |-> value]

\* items[index], for a 0-based index
SlotAt(its, index) == its[index + 1]

\* the indices on the free list, head first
RECURSIVE Chain(_, _)
Chain(next, its) ==
    IF ~next.some THEN <<>>
    ELSE <<next.v>> \o Chain(SlotAt(its, next.v).item.next, its)

\* InlineFreeList::is_free
IsFree(fl, index) == FlagVecGet(fl.is_free, index)

\* mutant: the slot is linked behind the last free slot instead of before
\* the first, which makes the free list a queue
PushSlip(fl, its, index) ==
    LET chain == Chain(fl.next, its)
        last  == chain[Len(chain)]
    IN  IF chain = <<>>
        THEN [items |-> [its EXCEPT ![index + 1].item = ItemNext(None)],
              free_list |-> [next |-> Some(index),
                             is_free |-> FlagVecSet(fl.is_free, index, TRUE)]]
        ELSE [items |-> [its EXCEPT ![index + 1].item = ItemNext(None),
                                    ![last + 1].item = ItemNext(Some(index))],
              free_list |-> [next |-> fl.next,
                             is_free |-> FlagVecSet(fl.is_free, index, TRUE)]]

\* InlineFreeList::push past its assertion: [items, free_list] afterwards
Push(fl, its, index) ==
    [items |-> [its EXCEPT ![index + 1].item = ItemNext(fl.next)],
     free_list |-> [next |-> Some(index),
                    is_free |-> FlagVecSet(fl.is_free, index, TRUE)]]

\* InlineFreeList::pop with a non-empty list: [index, items, free_list] afterwards
Pop(fl, its) ==
    LET index == fl.next.v
    IN  [index |-> index,
         free_list |-> [next |-> SlotAt(its, index).item.next,
                        is_free |-> FlagVecSet(fl.is_free, index, FALSE)]]

\* mutant: the initial slot starts at generation 0
PoolNewSlip ==
    Push([next |-> None, is_free |-> FlagVecNew],
         <<[generation |-> 0, item |-> ItemNext(None)]>>, 0)

\* GenerationalPool::new
PoolNew ==
    Push([next |-> None, is_free |-> FlagVecNew],
         <<[generation |-> 1, item |-> ItemNext(None)]>>, 0)

\* GenerationalPool::validate
Validate(its, fl, handle) ==
    LET h == Handle_From(handle)
    IN  IF IsFree(fl, h.index) THEN None
        ELSE IF h.index >= Len(its) THEN None
        ELSE IF SlotAt(its, h.index).generation = h.generation
             THEN Some(h.index) ELSE None

\* GenerationalPool::get (get_mut returns the same slot, mutably)
Get(its, fl, handle) ==
    LET h == Handle_From(handle)
    IN  IF IsFree(fl, h.index) THEN None
        ELSE IF h.index >= Len(its) THEN None
        ELSE IF SlotAt(its, h.index).generation = h.generation
             THEN Some(SlotAt(its, h.index).item.value) ELSE None

\* GenerationalPool::recover_key
RecoverKey(its, fl, index) ==
    IF IsFree(fl, index) THEN None
    ELSE Some(HandleFrom(index, SlotAt(its, index).generation))

\* GenerationalPool::raw_ (get_raw; get_raw_mut goes through raw_mut_, which
\* makes the same assertion): a panic, or the slot's generation and value
Raw_(its, fl, index) ==
    IF IsFree(fl, index) THEN [panic |-> TRUE]
    ELSE [panic |-> FALSE,
          generation |-> SlotAt(its, index).generation,
          value |-> SlotAt(its, index).item.value]

\* mutant: the slot is freed without bumping its generation
ReleaseSlip(its, fl, index) ==
    Push(fl, its, index)

\* mutant: the saturation test is missing, the generation wraps around
ReleaseWrapSlip(its, fl, index) ==
    Push(fl, [its EXCEPT ![index + 1].generation = (@ + 1) % (U32Max + 1)], index)

\* the tail of remove / remove_raw: the generation is bumped and the slot
\* pushed on the free list unless the generation is saturated
Release(its, fl, index) ==
    IF SlotAt(its, index).generation < U32Max
    THEN Push(fl, [its EXCEPT ![index + 1].generation = @ + 1], index)
    ELSE [items |-> its, free_list |-> fl]

---------------------------------------------------------------------------
(* The pool driven by an arbitrary caller *)

\* the handles insert has returned so far
KnownHandles == {history[k].handle : k \in DOMAIN history}

\* ghost: the insert whose value sits in slot `index` (the latest into it)
Occupant(index) ==
    LET ks == {k \in DOMAIN history : Raw(history[k].handle) = index}
    IN  CHOOSE k \in ks : \A j \in ks : j <= k

\* ghost: the value in slot `index` was moved out to the caller once more
\* (counted up to 2: "more than once")
MovedOut(index) ==
    [history EXCEPT ![Occupant(index)].removed = Min(@ + 1, 2)]

\* ghost: slot `index` was emptied; it is open to reuse unless its generation
\* is saturated
Emptied(order, its, index) ==
    IF SlotAt(its, index).generation < U32Max THEN Append(order, index) ELSE order

\* ghost: slot `index` was taken for a new value
Taken(order, index) ==
    SelectSeq(order, LAMBDA i : i # index)

\* GenerationalPool::insert(value)
Insert(value) ==
    /\ ~panicked
    /\ Len(history) < MaxInserts
    /\ IF free_list.next.some
       THEN LET popped == Pop(free_list, items)
                index  == popped.index
                handle == HandleFrom(index, SlotAt(items, index).generation)
            IN  IF ~IsFree(free_list, index)
                THEN /\ panicked' = TRUE
                     /\ pool_last' = [op |-> "insert", panic |-> TRUE]
                     /\ UNCHANGED <<items, free_list, history, freed_order>>
                ELSE /\ items' = [items EXCEPT ![index + 1].item = ItemValue(value)]
                     /\ free_list' = popped.free_list
                     /\ history' = Append(history, [handle |-> handle, value |-> value,
                                                    removed |-> 0])
                     /\ pool_last' = [op |-> "insert", handle |-> handle,
                                      reused |-> TRUE, slots_before |-> Len(items),
                                      freed_before |-> freed_order]
                     /\ freed_order' = Taken(freed_order, index)
                     /\ UNCHANGED panicked
       ELSE IF Len(items) > U32Max
            THEN /\ panicked' = TRUE
                 /\ pool_last' = [op |-> "insert", panic |-> TRUE]
                 /\ UNCHANGED <<items, free_list, history, freed_order>>
            ELSE LET handle == HandleFrom(Len(items), 0)
                 IN  /\ items' = Append(items, [generation |-> 0,
                                                item |-> ItemValue(value)])
                     /\ history' = Append(history, [handle |-> handle, value |-> value,
                                                    removed |-> 0])
                     /\ pool_last' = [op |-> "insert", handle |-> handle,
                                      reused |-> FALSE, slots_before |-> Len(items),
                                      freed_before |-> freed_order]
                     /\ UNCHANGED <<free_list, freed_order, panicked>>
    /\ UNCHANGED <<overflow_checks, ringVars, queueVars, blockVars, surfaceVars,
                   imageVars, graphVars, flagVars, backendVars, copyVars>>

\* GenerationalPool::remove(handle)
Remove(handle) ==
    /\ ~panicked
    /\ handle \in KnownHandles
    /\ LET raw_handle == Validate(items, free_list, handle)
           h == Handle_From(handle)
       IN  IF raw_handle.some /\ SlotAt(items, raw_handle.v).generation = h.generation
           THEN LET released == Release(items, free_list, h.index)
                IN  /\ items' = released.items
                    /\ free_list' = released.free_list
                    /\ history' = MovedOut(h.index)
                    /\ freed_order' = Emptied(freed_order, items, h.index)
                    /\ pool_last' = [op |-> "remove", handle |-> handle,
                                     result |-> Some(SlotAt(items, h.index).item.value)]
           ELSE /\ pool_last' = [op |-> "remove", handle |-> handle, result |-> None]
                /\ UNCHANGED <<items, free_list, history, freed_order>>
    /\ UNCHANGED <<commonVars, ringVars, queueVars, blockVars, surfaceVars, imageVars,
                   graphVars, flagVars, backendVars, copyVars>>

\* GenerationalPool::remove_raw(RawHandle { index })
RemoveRaw(index) ==
    /\ ~panicked
    /\ index \in {Raw(h) : h \in KnownHandles}
    /\ IF IsFree(free_list, index)
       THEN /\ panicked' = TRUE
            /\ pool_last' = [op |-> "remove_raw", index |-> index, panic |-> TRUE]
            /\ UNCHANGED <<items, free_list, history, freed_order>>
       ELSE LET released == Release(items, free_list, index)
            IN  /\ items' = released.items
                /\ free_list' = released.free_list
                /\ history' = MovedOut(index)
                /\ freed_order' = Emptied(freed_order, items, index)
                /\ pool_last' = [op |-> "remove_raw", index |-> index, panic |-> FALSE,
                                 result |-> SlotAt(items, index).item.value]
                /\ UNCHANGED panicked
    /\ UNCHANGED <<overflow_checks, ringVars, queueVars, blockVars, surfaceVars,
                   imageVars, graphVars, flagVars, backendVars, copyVars>>

\* *pool.get_mut(handle)? = value
GetMut(handle, value) ==
    /\ ~panicked
    /\ handle \in KnownHandles
    /\ LET h == Handle_From(handle)
       IN  IF Get(items, free_list, handle).some
           THEN /\ items' = [items EXCEPT ![h.index + 1].item = ItemValue(value)]
                /\ history' = [history EXCEPT ![Occupant(h.index)].value = value]
                /\ pool_last' = [op |-> "get_mut", handle |-> handle,
                                 result |-> Some(SlotAt(items, h.index).item.value)]
           ELSE /\ pool_last' = [op |-> "get_mut", handle |-> handle, result |-> None]
                /\ UNCHANGED <<items, history>>
    /\ UNCHANGED <<free_list, freed_order, commonVars, ringVars, queueVars, blockVars,
                   surfaceVars, imageVars, graphVars, flagVars, backendVars, copyVars>>

---------------------------------------------------------------------------
(* Generational pool: properties *)

HandleOf(k) == history[k].handle

\* insert j was removed and a later insert k reused its slot and is live
Reused(j, k) ==
    /\ j < k
    /\ Raw(HandleOf(j)) = Raw(HandleOf(k))
    /\ history[j].removed >= 1
    /\ history[k].removed = 0

\* C8: after remove(h1) and a later insert(v2) = h2 that reuses the slot,
\* get(h1) is None, get(h2) is Some(v2), h1 # h2 and both have the same raw index.
C8_StaleHandleAfterReuse ==
    \A j, k \in DOMAIN history :
        Reused(j, k)
            => /\ Get(items, free_list, HandleOf(j)) = None
               /\ Get(items, free_list, HandleOf(k)) = Some(history[k].value)
               /\ HandleOf(j) # HandleOf(k)
               /\ Raw(HandleOf(j)) = Raw(HandleOf(k))

C8_Witness ==
    \E j, k \in DOMAIN history :
        /\ Reused(j, k)
        /\ history[j].value # history[k].value
        /\ pool_last.op = "insert"
        /\ pool_last.reused

\* C9: for every handle h insert ever returned, of every generation, get(h),
\* get_mut(h) and validate(h) are Some exactly while the value inserted under
\* h has not been removed, and get(h) is then that value.
C9_HandleValidIffNotRemoved ==
    \A k \in DOMAIN history :
        IF history[k].removed = 0
        THEN /\ Get(items, free_list, HandleOf(k)) = Some(history[k].value)
             /\ Validate(items, free_list, HandleOf(k)) = Some(Raw(HandleOf(k)))
        ELSE /\ Get(items, free_list, HandleOf(k)) = None
             /\ Validate(items, free_list, HandleOf(k)) = None

\* C10: remove(h) returns Some(v) at most once per inserted value; a stored
\* value is never moved out twice.
C10_RemovedAtMostOnce ==
    /\ \A k \in DOMAIN history : history[k].removed <= 1
    /\ (pool_last.op = "remove" /\ pool_last.result.some)
         => \E k \in DOMAIN history :
               /\ HandleOf(k) = pool_last.handle
               /\ history[k].removed = 1
               /\ history[k].value = pool_last.result.v

FreeChain == Chain(free_list.next, items)

GenerationOf(k) == Handle_From(HandleOf(k)).generation

\* this step is a remove or remove_raw that returned a value from slot `index`
RemovedFrom(index) ==
    \/ /\ pool_last'.op = "remove"
       /\ pool_last'.result.some
       /\ Raw(pool_last'.handle) = index
    \/ /\ pool_last'.op = "remove_raw"
       /\ ~pool_last'.panic
       /\ pool_last'.index = index

\* every step leaves each slot's generation alone, except a successful
\* removal, which adds exactly one below the maximum and frees the slot
GenerationStep ==
    \A index \in 0 .. (Len(items) - 1) :
        LET before == SlotAt(items, index).generation
            after  == SlotAt(items', index).generation
        IN  IF RemovedFrom(index)
            THEN IF before < U32Max
                 THEN after = before + 1 /\ IsFree(free_list', index)
                 ELSE after = before /\ ~IsFree(free_list', index)
            ELSE after = before

\* a slot whose value was removed at the maximum generation is not on the
\* free list and no later insert returned its index
Retired ==
    \A j \in DOMAIN history :
        (GenerationOf(j) = U32Max /\ history[j].removed >= 1)
            => /\ ~IsFree(free_list, Raw(HandleOf(j)))
               /\ \A n \in DOMAIN FreeChain : FreeChain[n] # Raw(HandleOf(j))
               /\ \A k \in DOMAIN history : k > j => Raw(HandleOf(k)) # Raw(HandleOf(j))

\* C11: a successful remove / remove_raw raises the slot's generation by
\* exactly one while it is below the maximum and never wraps it; a slot
\* emptied at the maximum generation is not pushed on the free list and no
\* later insert returns its index.
C11_GenerationSaturates ==
    [][GenerationStep]_vars /\ []Retired

C11_Witness ==
    \E j \in DOMAIN history :
        /\ GenerationOf(j) = U32Max
        /\ history[j].removed >= 1
        /\ Len(history) > j
        /\ pool_last.op = "insert"

\* C12: no two insert calls return equal handles, and no handle insert
\* returns is zero (index 0 with generation 0).
C12_HandlesUniqueNonzero ==
    /\ \A j, k \in DOMAIN history : j # k => HandleOf(j) # HandleOf(k)
    /\ \A k \in DOMAIN history : HandleOf(k) # 0

C12_Witness ==
    \E j, k \in DOMAIN history :
        /\ j < k
        /\ Raw(HandleOf(j)) = 0
        /\ Raw(HandleOf(k)) = 0
        /\ GenerationOf(k) = U32Max

\* the last call was an insert that took a slot off the free list while
\* more than one slot was open to reuse
ReusedAmongSeveral ==
    /\ ~panicked
    /\ pool_last.op = "insert"
    /\ pool_last.reused
    /\ Len(pool_last.freed_before) >= 2

\* C13 as stated: with more than one slot free, insert reuses the slot that
\* was freed earliest.
C13_ReusesOldestFreed ==
    ReusedAmongSeveral
        => Raw(pool_last.handle) = pool_last.freed_before[1]

\* C13 amended: with more than one slot free, insert reuses the slot that
\* was freed most recently; the free list is a stack.
C13_ReusesLatestFreed ==
    ReusedAmongSeveral
        => Raw(pool_last.handle) = pool_last.freed_before[Len(pool_last.freed_before)]

C13_Witness ==
    /\ ReusedAmongSeveral
    /\ Len(pool_last.freed_before) >= 3
    /\ pool_last.freed_before[1] # 0

\* an insert that finds the free list empty appends one slot of generation 0
\* and returns (previous length, 0); otherwise the slot count stays
InsertFrame ==
    (pool_last'.op = "insert" /\ ~panicked')
        => IF ~free_list.next.some
           THEN /\ Len(items') = Len(items) + 1
                /\ items'[Len(items')].generation = 0
                /\ Handle_From(pool_last'.handle) =
                      [index |-> Len(items), generation |-> 0]
                /\ \A i \in DOMAIN items : items'[i] = items[i]
           ELSE Len(items') = Len(items)

\* no step shrinks the slot array, and a removal leaves its length alone
NeverShrinks ==
    /\ Len(items') >= Len(items)
    /\ pool_last'.op \in {"remove", "remove_raw"} => Len(items') = Len(items)

\* C14: insert with an empty free list appends exactly one slot with
\* generation 0, returns the handle (previous length, 0) and leaves every
\* existing slot unchanged; insert with a non-empty free list keeps the slot
\* count; remove never shrinks the slot array.
C14_InsertGrowsByOne ==
    [][InsertFrame /\ NeverShrinks]_vars

C14_Witness ==
    /\ pool_last.op = "insert"
    /\ ~pool_last.reused
    /\ pool_last.slots_before >= 2
    /\ Len(items) = pool_last.slots_before + 1
    /\ \E k \in DOMAIN history : history[k].removed >= 1

\* ghost: slot `index` holds no value: nothing was inserted into it yet, or
\* its last value was removed
Vacant(index) ==
    \/ \A k \in DOMAIN history : Raw(HandleOf(k)) # index
    \/ history[Occupant(index)].removed >= 1

\* C15: validate(h) is Some exactly when get(h) is; for a live handle h the
\* raw handle has h's index, recover_key(raw) is h and get_raw(raw) is the
\* value get(h) returns; get_raw, get_raw_mut and remove_raw panic on a slot
\* that holds no value instead of returning data.
C15_RawHandleAgrees ==
    /\ \A k \in DOMAIN history :
          LET h == HandleOf(k)
          IN  /\ Validate(items, free_list, h).some <=> Get(items, free_list, h).some
              /\ history[k].removed = 0
                    => /\ Validate(items, free_list, h) = Some(Raw(h))
                       /\ RecoverKey(items, free_list, Raw(h)) = Some(h)
                       /\ Raw_(items, free_list, Raw(h)) =
                             [panic |-> FALSE, generation |-> GenerationOf(k),
                              value |-> Get(items, free_list, h).v]
    /\ \A index \in 0 .. (Len(items) - 1) :
          Vacant(index) => Raw_(items, free_list, index).panic
    /\ (pool_last.op = "remove_raw" /\ ~pool_last.panic)
          => history[Occupant(pool_last.index)].removed = 1

---------------------------------------------------------------------------
(* memory/block_allocator.rs *)

\* the arguments of BlockAllocator::new (the test uses 8 and 4)
BlockSize == 2
MaxBlocks == 3

\* blocks[index], for a 0-based index
BlockAt(bs, index) == bs[index + 1]

\* BlockAllocator::new(block_size, max_blocks): the blocks
BlockAllocatorNew(block_size, max_blocks) ==
    [i \in 1 .. max_blocks |-> [start |-> (i - 1) * block_size, next |-> i]]

\* mutant: the head of the free list is not advanced
BlockAllocatorAllocateSlip(bs, first) ==
    IF first < Len(bs)
    THEN [kind |-> "Ok", offset |-> BlockAt(bs, first).start,
          first_free_block |-> first]
    ELSE [kind |-> "OutOfMemory", capacity |-> Len(bs), available |-> 0,
          requested |-> 1, first_free_block |-> first]

\* BlockAllocator::allocate: what it returns, and first_free_block afterwards
BlockAllocatorAllocate(bs, first) ==
    IF first < Len(bs)
    THEN [kind |-> "Ok", offset |-> BlockAt(bs, first).start,
          first_free_block |-> BlockAt(bs, first).next]
    ELSE [kind |-> "OutOfMemory", capacity |-> Len(bs), available |-> 0,
          requested |-> 1, first_free_block |-> first]

\* the two assertions of BlockAllocator::free
BlockAllocatorFreeAssertions(bs, block_size, offset) ==
    /\ offset % block_size = 0
    /\ offset \div block_size < Len(bs)

\* mutant: the freed block is made the head without being linked to the old head
BlockAllocatorFreeSlip(bs, first, block_size, offset) ==
    [blocks |-> bs, first_free_block |-> offset \div block_size]

\* BlockAllocator::free past its assertions: [blocks, first_free_block] afterwards
BlockAllocatorFree(bs, first, block_size, offset) ==
    LET block_index == offset \div block_size
    IN  [blocks |-> [bs EXCEPT ![block_index + 1].next = first],
         first_free_block |-> block_index]

\* BlockAllocator::allocate
BlockAllocate ==
    /\ ~panicked
    /\ LET r == BlockAllocatorAllocate(blocks, first_free_block)
       IN  /\ first_free_block' = r.first_free_block
           /\ block_last' = [op |-> "allocate", result |-> r,
                             was_outstanding |-> r.kind = "Ok" /\ r.offset \in outstanding,
                             outstanding_before |-> Cardinality(outstanding),
                             expected_before |-> expected,
                             unchanged |-> first_free_block' = first_free_block]
           /\ outstanding' = IF r.kind = "Ok" THEN outstanding \cup {r.offset}
                             ELSE outstanding
           /\ expected' = IF r.kind = "Ok" /\ expected # <<>> THEN Tail(expected)
                          ELSE expected
    /\ UNCHANGED <<blocks, valid_frees, commonVars, ringVars, poolVars, queueVars,
                   surfaceVars, imageVars, graphVars, flagVars, backendVars, copyVars>>

\* BlockAllocator::free(offset)
BlockFree(offset) ==
    /\ ~panicked
    /\ LET passes == BlockAllocatorFreeAssertions(blocks, BlockSize, offset)
           freed  == BlockAllocatorFree(blocks, first_free_block, BlockSize, offset)
           valid  == offset \in outstanding
       IN  /\ panicked' = ~passes
           /\ blocks' = IF passes THEN freed.blocks ELSE blocks
           /\ first_free_block' = IF passes THEN freed.first_free_block
                                  ELSE first_free_block
           /\ valid_frees' = (valid_frees /\ valid)
           /\ outstanding' = outstanding \ {offset}
           /\ expected' = IF valid_frees /\ valid THEN <<offset>> \o expected ELSE <<>>
           /\ block_last' = [op |-> "free", offset |-> offset, passed |-> passes,
                             valid |-> valid,
                             unchanged |-> /\ blocks' = blocks
                                           /\ first_free_block' = first_free_block]
    /\ UNCHANGED <<overflow_checks, ringVars, poolVars, queueVars, surfaceVars,
                   imageVars, graphVars, flagVars, backendVars, copyVars>>

---------------------------------------------------------------------------
(* Block allocator: properties *)

BlockAllocateReturned(kind) ==
    /\ block_last.op = "allocate"
    /\ block_last.result.kind = kind

\* C16: while every free released an outstanding offset, allocate never
\* returns an outstanding offset, every offset it returns is index *
\* block_size for an index below max_blocks, and at most max_blocks offsets
\* are outstanding.
C16_BlocksHandedOutOnce ==
    valid_frees
        => /\ Cardinality(outstanding) <= MaxBlocks
           /\ BlockAllocateReturned("Ok")
                => /\ ~block_last.was_outstanding
                   /\ \E index \in 0 .. (MaxBlocks - 1) :
                         block_last.result.offset = index * BlockSize

C16_Witness ==
    /\ valid_frees
    /\ BlockAllocateReturned("Ok")
    /\ block_last.result.offset = 0
    /\ block_last.outstanding_before = MaxBlocks - 1
    /\ Cardinality(outstanding) = MaxBlocks

\* C17: the free list is a stack: allocate returns the most recently freed
\* offset that was not handed out again, and with no such offset the never
\* allocated ones in ascending order 0, block_size, 2 * block_size, ...
C17_FreeListIsStack ==
    (valid_frees /\ BlockAllocateReturned("Ok"))
        => /\ block_last.expected_before # <<>>
           /\ block_last.result.offset = Head(block_last.expected_before)

C17_Witness ==
    /\ valid_frees
    /\ BlockAllocateReturned("Ok")
    /\ Len(block_last.expected_before) >= 2
    /\ block_last.expected_before[1] > block_last.expected_before[2]
    /\ block_last.expected_before[2] \notin outstanding

\* C18: allocate returns OutOfMemory { capacity: max_blocks, available: 0,
\* requested: 1 } exactly when all max_blocks offsets are outstanding, and
\* then leaves the allocator unchanged; an allocate that follows the free of
\* an outstanding offset succeeds with that offset.
C18_OutOfMemoryIffAllOutstanding ==
    block_last.op = "allocate"
        => /\ block_last.result.kind = "OutOfMemory"
                <=> block_last.outstanding_before = MaxBlocks
           /\ block_last.result.kind = "OutOfMemory"
                => /\ block_last.result.capacity = MaxBlocks
                   /\ block_last.result.available = 0
                   /\ block_last.result.requested = 1
                   /\ block_last.unchanged
           /\ (valid_frees /\ block_last.result.kind = "Ok")
                => block_last.result.offset = Head(block_last.expected_before)

\* C19: free(offset) fails an assertion and leaves the free list alone when
\* offset is not a multiple of block_size, lies outside the allocator's
\* range, or names a block that is already free.
C19_FreeAssertsMisuse ==
    (block_last.op = "free" /\ ~block_last.valid)
        => /\ ~block_last.passed
           /\ panicked
           /\ block_last.unchanged

---------------------------------------------------------------------------
(* dx12/queue.rs *)

\* fence values handed out by submit and flush are explored up to this value
MaxFenceValue == 4

\* what ID3D12CommandQueue::ExecuteCommandLists and ::Signal enqueue
Execute(id, command_allocator) ==
    [type |-> "execute", value |-> id, allocator |-> command_allocator]
Signal(value) ==
    [type |-> "signal", value |-> value]

\* Graphics::poll_fence: last_value afterwards
PollFenceValue(lv, completed) ==
    Max(lv, completed)

\* mutant: the cache takes the value that was asked for
IsCompleteLastSlip(lv, completed, fence_value) ==
    IF fence_value > lv THEN PollFenceValue(lv, completed) ELSE fence_value

\* Graphics::is_complete(fence_value): last_value afterwards
IsCompleteLast(lv, completed, fence_value) ==
    IF fence_value > lv THEN PollFenceValue(lv, completed) ELSE lv

\* mutant: is_complete is one fence value early
IsCompleteSlip(lv, completed, fence_value) ==
    fence_value <= IsCompleteLast(lv, completed, fence_value) + 1

\* Graphics::is_complete(fence_value): what it returns
IsComplete(lv, completed, fence_value) ==
    fence_value <= IsCompleteLast(lv, completed, fence_value)

\* mutant: record recycles the front submission without asking is_complete
RecordSlip(subs, lv, completed, created) ==
    IF subs # <<>>
    THEN [submissions |-> Tail(subs),
          last_value  |-> lv,
          allocator   |-> Head(subs).allocator,
          created     |-> created,
          value       |-> Some(Head(subs).data)]
    ELSE [submissions |-> subs,
          last_value  |-> lv,
          allocator   |-> created + 1,
          created     |-> created + 1,
          value       |-> None]

\* Graphics::record: the front submission is recycled if is_complete says it
\* is done, otherwise a new command allocator is created
Record(subs, lv, completed, created) ==
    IF subs # <<>> /\ IsComplete(lv, completed, Head(subs).fence_value)
    THEN [submissions |-> Tail(subs),
          last_value  |-> IsCompleteLast(lv, completed, Head(subs).fence_value),
          allocator   |-> Head(subs).allocator,
          created     |-> created,
          value       |-> Some(Head(subs).data)]
    ELSE [submissions |-> subs,
          last_value  |-> IF subs # <<>>
                          THEN IsCompleteLast(lv, completed, Head(subs).fence_value)
                          ELSE lv,
          allocator   |-> created + 1,
          created     |-> created + 1,
          value       |-> None]

\* mutant: submit hands out next_value without consuming it
SubmitNextValueSlip(next) ==
    next

\* Graphics::submit: next_value afterwards
SubmitNextValue(next) ==
    next + 1

\* Graphics::flush: next_value afterwards
FlushNextValue(next) ==
    next + 1

\* the Submission that Graphics::submit pushes on the back of the deque
Submission(data, command_allocator, fence_value) ==
    [data |-> data, allocator |-> command_allocator, fence_value |-> fence_value]

---------------------------------------------------------------------------
(* plinth/src/platform/win32/mod.rs: the Platform drives queue and allocator *)

\* D3D12_TEXTURE_DATA_PITCH_ALIGNMENT (256), scaled down
PitchAlignment == 2
\* D3D12_TEXTURE_DATA_PLACEMENT_ALIGNMENT (512): two pitches
PlacementAlignment == 2 * PitchAlignment
\* Platform::UPLOAD_BUFFER_SIZE (20 MiB), scaled down: room for two placements
UploadBufferSize == 2 * PlacementAlignment
\* align_of::<u16>() and size_of::<u16>(): RenderGraph::imm_indices
IndexAlignment == 2
IndexSize == 2
\* align_of::<RoundedRectVertex>() (its fields are f32); its size is scaled
\* down to one f32
VertexAlignment == 4
VertexSize == VertexAlignment
\* elements per immediate-mode buffer, rows per uploaded image
MaxElements == 1
MaxRows == 2

\* one call of FrameAllocator::allocate
Upload(size, alignment) == [size |-> size, alignment |-> alignment]

\* The calls of FrameAllocator::allocate of one frame, in order, each
\* unwrapped by the caller: the cursor afterwards, the heap bytes handed out,
\* and whether an unwrap (or an overflow check) panicked.
RECURSIVE AllocateAll(_, _, _, _)
AllocateAll(a, bytes_allocated, uploads, checks) ==
    IF uploads = <<>>
    THEN [panic |-> FALSE, bytes_allocated |-> bytes_allocated, bytes |-> {}]
    ELSE LET r == Allocate(a, bytes_allocated, Head(uploads).size,
                           Head(uploads).alignment, checks)
         IN  IF r.kind # "Ok"
             THEN [panic |-> TRUE, bytes_allocated |-> bytes_allocated, bytes |-> {}]
             ELSE LET rest == AllocateAll(a, r.bytes_allocated, Tail(uploads), checks)
                  IN  [rest EXCEPT !.bytes = @ \cup HeapRange(AllocationOf(r))]

\* ghost: free_frame was called on the marker submitted under `id`
MarkFreed(subs, id) ==
    [k \in DOMAIN subs |->
        IF subs[k].id = id THEN [subs[k] EXCEPT !.freed = TRUE] ELSE subs[k]]

\* The body shared by Platform::new (the white pixel), Platform::draw and
\* Platform::upload_image: record, free_frame on the marker record returned
\* (free_old: Platform::new drops it), begin_frame, the frame's allocations,
\* finish, submit.
RecordUploadSubmit(uploads, free_old) ==
    LET rec     == Record(submissions, last_value, fence, allocators_created)
        freeing == free_old /\ rec.value.some
        passes  == ~freeing \/ FreeFrameAssertion(allocator, rec.value.v)
        freed   == IF freeing /\ passes
                   THEN FreeFrameAllocator(allocator, rec.value.v) ELSE allocator
        opened  == FrameAllocatorNew(freed)
        done    == AllocateAll(freed, opened.bytes_allocated, uploads, overflow_checks)
        closed  == [opened EXCEPT !.bytes_allocated = done.bytes_allocated]
        marker  == FinishMarker(closed)
        ghost   == IF freeing /\ passes
                   THEN MarkFreed(submitted, Head(submissions).fence_value)
                   ELSE submitted
    IN  /\ last_value' = rec.last_value
        /\ allocators_created' = rec.created
        /\ IF ~passes \/ done.panic
           THEN /\ panicked' = TRUE
                /\ allocator' = freed
                /\ submissions' = rec.submissions
                /\ commands' = Max(commands - 1, 0)
                /\ submitted' = ghost
                /\ UNCHANGED <<next_value, gpu_queue>>
           ELSE /\ UNCHANGED panicked
                /\ allocator' = FinishAllocator(freed, closed)
                /\ gpu_queue' = gpu_queue \o <<Execute(next_value, rec.allocator),
                                              Signal(next_value)>>
                /\ next_value' = SubmitNextValue(next_value)
                /\ commands' = 1
                /\ submissions' = Append(rec.submissions,
                                         Submission(marker, rec.allocator, next_value))
                /\ submitted' = Append(ghost, [id |-> next_value, marker |-> marker,
                                               bytes |-> done.bytes, freed |-> FALSE])

\* the rest of Platform::new after Graphics::new: the white pixel is uploaded
PlatformNew ==
    /\ ~panicked
    /\ pc = "new"
    /\ RecordUploadSubmit(<<Upload(2 * PitchAlignment, PlacementAlignment)>>, FALSE)
    /\ pc' = "idle"
    /\ UNCHANGED <<overflow_checks, fence, frame, frame_allocs, markers, in_order,
                   ring_last, poolVars, blockVars, surfaceVars, imageVars, graphVars,
                   flagVars, backendVars, copyVars>>

\* mutant: the render target keeps the last_use it had
DrawLastUseSlip(last_use, fence_value) ==
    last_use

\* Platform::draw: target.last_use.set(fence_value)
DrawLastUse(last_use, fence_value) ==
    fence_value

\* mutant: draw waits on the fence for the submission it has just made
DrawSlip(indices, vertices) ==
    /\ ~panicked
    /\ pc = "idle"
    /\ next_value <= MaxFenceValue
    /\ RecordUploadSubmit(<<Upload(indices * IndexSize, IndexAlignment),
                            Upload(vertices * VertexSize, VertexAlignment)>>, TRUE)
    /\ pc' = IF fence < next_value THEN "waiting" ELSE "idle"
    /\ target_last_use' = IF panicked' THEN target_last_use
                          ELSE DrawLastUse(target_last_use, next_value)
    /\ UNCHANGED <<overflow_checks, fence, frame, frame_allocs, markers, in_order,
                   ring_last, poolVars, blockVars, render_targets, imageVars, graphVars,
                   flagVars, backendVars, copyVars>>

\* Platform::draw with `indices` immediate-mode indices and `vertices` vertices
Draw(indices, vertices) ==
    /\ ~panicked
    /\ pc = "idle"
    /\ next_value <= MaxFenceValue
    /\ RecordUploadSubmit(<<Upload(indices * IndexSize, IndexAlignment),
                            Upload(vertices * VertexSize, VertexAlignment)>>, TRUE)
    /\ target_last_use' = IF panicked' THEN target_last_use
                          ELSE DrawLastUse(target_last_use, next_value)
    /\ UNCHANGED <<pc, overflow_checks, fence, frame, frame_allocs, markers, in_order,
                   ring_last, poolVars, blockVars, render_targets, imageVars, graphVars,
                   flagVars, backendVars, copyVars>>

\* Platform::upload_image of an image of `rows` rows, one pitch each
UploadImage(rows) ==
    /\ ~panicked
    /\ pc = "idle"
    /\ next_value <= MaxFenceValue
    /\ RecordUploadSubmit(<<Upload(rows * PitchAlignment, PlacementAlignment)>>, TRUE)
    /\ UNCHANGED <<pc, overflow_checks, fence, frame, frame_allocs, markers, in_order,
                   ring_last, poolVars, blockVars, surfaceVars, imageVars, graphVars,
                   flagVars, backendVars, copyVars>>

\* Graphics::poll_fence, called on its own
PollFence ==
    /\ ~panicked
    /\ pc = "idle"
    /\ last_value' = PollFenceValue(last_value, fence)
    /\ UNCHANGED <<pc, next_value, commands, submissions, allocators_created,
                   gpu_queue, fence, submitted, commonVars, ringVars, poolVars,
                   blockVars, surfaceVars, imageVars, graphVars, flagVars, backendVars, copyVars>>

\* Graphics::flush (Platform::resize, ::destroy_surface): the Signal
FlushSignal ==
    /\ ~panicked
    /\ pc = "idle"
    /\ next_value <= MaxFenceValue
    /\ gpu_queue' = Append(gpu_queue, Signal(next_value))
    /\ pc' = "flush"
    /\ UNCHANGED <<next_value, last_value, commands, submissions, allocators_created,
                   fence, submitted, commonVars, ringVars, poolVars, blockVars,
                   surfaceVars, imageVars, graphVars, flagVars, backendVars, copyVars>>

\* Graphics::flush: wait_until tests is_complete; if the value is reached
\* the flush is over, otherwise the thread sleeps on the event
FlushTest ==
    /\ pc = "flush"
    /\ last_value' = IsCompleteLast(last_value, fence, next_value)
    /\ IF IsComplete(last_value, fence, next_value)
       THEN /\ next_value' = FlushNextValue(next_value)
            /\ pc' = "idle"
       ELSE /\ pc' = "waiting"
            /\ UNCHANGED next_value
    /\ UNCHANGED <<commands, submissions, allocators_created, gpu_queue, fence,
                   submitted, commonVars, ringVars, poolVars, blockVars, surfaceVars,
                   imageVars, graphVars, flagVars, backendVars, copyVars>>

\* mutant: the wait returns although the fence has not reached the value
FlushWakeSlip ==
    /\ pc = "waiting"
    /\ last_value' = next_value
    /\ next_value' = FlushNextValue(next_value)
    /\ pc' = "idle"
    /\ UNCHANGED <<commands, submissions, allocators_created, gpu_queue, fence,
                   submitted, commonVars, ringVars, poolVars, blockVars, surfaceVars,
                   imageVars, graphVars, flagVars, backendVars, copyVars>>

\* Graphics::flush: the event set by SetEventOnCompletion wakes the thread
FlushWake ==
    /\ pc = "waiting"
    /\ fence >= next_value
    /\ last_value' = next_value
    /\ next_value' = FlushNextValue(next_value)
    /\ pc' = "idle"
    /\ UNCHANGED <<commands, submissions, allocators_created, gpu_queue, fence,
                   submitted, commonVars, ringVars, poolVars, blockVars, surfaceVars,
                   imageVars, graphVars, flagVars, backendVars, copyVars>>

\* the GPU takes the next command off the queue: a command list is executed
\* to its end, a Signal sets the fence
GpuStep ==
    /\ gpu_queue # <<>>
    /\ gpu_queue' = Tail(gpu_queue)
    /\ fence' = IF Head(gpu_queue).type = "signal" THEN Head(gpu_queue).value ELSE fence
    /\ UNCHANGED <<pc, next_value, last_value, commands, submissions,
                   allocators_created, submitted, commonVars, ringVars, poolVars,
                   blockVars, surfaceVars, imageVars, graphVars, flagVars, backendVars, copyVars>>

---------------------------------------------------------------------------
(* graphics/src/dx12/mod.rs: the GraphicsContext that keeps frames_in_flight *)

\* GraphicsContext::begin_frame: how many frames at the front of
\* frames_in_flight is_complete accepts (take_while), and last_value after
\* the calls of is_complete
RECURSIVE CompletePrefix(_, _, _)
CompletePrefix(frames, lv, completed) ==
    IF frames = <<>> THEN [count |-> 0, last_value |-> lv]
    ELSE LET polled == IsCompleteLast(lv, completed, Head(frames).fence_value)
         IN  IF ~IsComplete(lv, completed, Head(frames).fence_value)
             THEN [count |-> 0, last_value |-> polled]
             ELSE LET rest == CompletePrefix(Tail(frames), polled, completed)
                  IN  [rest EXCEPT !.count = @ + 1]

\* GraphicsContext::begin_frame: free_frame on the marker of every drained
\* frame, the oldest first, up to the first assertion that fails
RECURSIVE FreeFrames(_, _)
FreeFrames(a, frames) ==
    IF frames = <<>> THEN [passed |-> TRUE, allocator |-> a, freed |-> {}]
    ELSE IF ~FreeFrameAssertion(a, Head(frames).data)
    THEN [passed |-> FALSE, allocator |-> a, freed |-> {}]
    ELSE LET rest == FreeFrames(FreeFrameAllocator(a, Head(frames).data),
                                Tail(frames))
         IN  [rest EXCEPT !.freed = @ \cup {Head(frames).fence_value}]

\* ghost: free_frame was called on the markers submitted under `ids`
MarkAllFreed(subs, ids) ==
    [k \in DOMAIN subs |->
        IF subs[k].id \in ids THEN [subs[k] EXCEPT !.freed = TRUE] ELSE subs[k]]

\* the [u8; 4] that create_white_pixel uploads
WhitePixelSize == 4
WhitePixelAlignment == 1

\* GraphicsContext::new: the queue and the upload allocator are created,
\* nothing is submitted
ContextNew ==
    /\ ~panicked
    /\ pc = "new"
    /\ pc' = "context"
    /\ UNCHANGED <<next_value, last_value, commands, submissions, allocators_created,
                   gpu_queue, fence, submitted, commonVars, ringVars, poolVars,
                   blockVars, surfaceVars, imageVars, graphVars, flagVars,
                   backendVars, copyVars>>

\* GraphicsContext::draw: begin_frame drains the completed frames and frees
\* their markers, the three immediate-mode buffers (and, in the first draw,
\* the white pixel) are uploaded, and submit_frame puts the frame in flight
ContextDraw(vertices, indices, rects) ==
    LET prefix  == CompletePrefix(submissions, last_value, fence)
        drained == FreeFrames(allocator, SubSeq(submissions, 1, prefix.count))
        opened  == FrameAllocatorNew(drained.allocator)
        uploads == <<Upload(vertices * VertexSize, VertexAlignment),
                     Upload(indices * IndexSize, IndexAlignment),
                     Upload(rects * VertexSize, VertexAlignment)>>
                   \o (IF submitted = <<>>
                       THEN <<Upload(WhitePixelSize, WhitePixelAlignment)>>
                       ELSE <<>>)
        done    == AllocateAll(drained.allocator, opened.bytes_allocated, uploads,
                               overflow_checks)
        closed  == [opened EXCEPT !.bytes_allocated = done.bytes_allocated]
        marker  == FinishMarker(closed)
        ghost   == MarkAllFreed(submitted, drained.freed)
        kept    == SubSeq(submissions, Cardinality(drained.freed) + 1,
                          Len(submissions))
    IN  /\ ~panicked
        /\ pc = "context"
        /\ next_value <= MaxFenceValue
        /\ last_value' = prefix.last_value
        /\ IF ~drained.passed \/ done.panic
           THEN /\ panicked' = TRUE
                /\ allocator' = drained.allocator
                /\ submissions' = kept
                /\ submitted' = ghost
                /\ UNCHANGED <<next_value, gpu_queue>>
           ELSE /\ UNCHANGED panicked
                /\ allocator' = FinishAllocator(drained.allocator, closed)
                /\ gpu_queue' = gpu_queue \o <<Execute(next_value, 0),
                                              Signal(next_value)>>
                /\ next_value' = SubmitNextValue(next_value)
                /\ submissions' = Append(kept, Submission(marker, 0, next_value))
                /\ submitted' = Append(ghost, [id |-> next_value, marker |-> marker,
                                               bytes |-> done.bytes, freed |-> FALSE])
        /\ UNCHANGED <<pc, commands, allocators_created, overflow_checks, fence, frame,
                       frame_allocs, markers, in_order, ring_last, poolVars, blockVars,
                       surfaceVars, imageVars, graphVars, flagVars, backendVars, copyVars>>

---------------------------------------------------------------------------
(* Platform::resize and dx12/surface.rs *)

\* calls of Platform::resize that are explored
MaxResizes == 2

\* Surface::resize: the render targets are dropped, ResizeBuffers replaces
\* the swap-chain buffers and new render targets wrap the new buffers
SurfaceResize(targets) ==
    targets + 1

\* SubmissionId::default()
SubmissionIdDefault == 0

\* Surface::get_render_targets: the Image that wraps a new buffer has not
\* been used by any submission
GetRenderTargets ==
    SubmissionIdDefault

\* Platform::resize: the Signal of its flush
ResizeSignal ==
    /\ ~panicked
    /\ pc = "idle"
    /\ next_value <= MaxFenceValue
    /\ render_targets < MaxResizes
    /\ gpu_queue' = Append(gpu_queue, Signal(next_value))
    /\ pc' = "resize"
    /\ UNCHANGED <<next_value, last_value, commands, submissions, allocators_created,
                   fence, submitted, commonVars, ringVars, poolVars, blockVars,
                   surfaceVars, imageVars, graphVars, flagVars, backendVars, copyVars>>

\* mutant: the buffers are resized before the wait of flush is over
ResizeTestSlip ==
    /\ pc = "resize"
    /\ last_value' = IsCompleteLast(last_value, fence, next_value)
    /\ next_value' = FlushNextValue(next_value)
    /\ pc' = "idle"
    /\ render_targets' = SurfaceResize(render_targets)
    /\ target_last_use' = GetRenderTargets
    /\ UNCHANGED <<commands, submissions, allocators_created, gpu_queue, fence,
                   submitted, commonVars, ringVars, poolVars, blockVars, imageVars,
                   graphVars, flagVars, backendVars, copyVars>>

\* Platform::resize: wait_until tests is_complete; if the value is reached
\* flush returns and Surface::resize runs, otherwise the thread sleeps
ResizeTest ==
    /\ pc = "resize"
    /\ last_value' = IsCompleteLast(last_value, fence, next_value)
    /\ IF IsComplete(last_value, fence, next_value)
       THEN /\ next_value' = FlushNextValue(next_value)
            /\ pc' = "idle"
            /\ render_targets' = SurfaceResize(render_targets)
            /\ target_last_use' = GetRenderTargets
       ELSE /\ pc' = "resize_waiting"
            /\ UNCHANGED <<next_value, render_targets, target_last_use>>
    /\ UNCHANGED <<commands, submissions, allocators_created, gpu_queue, fence,
                   submitted, commonVars, ringVars, poolVars, blockVars, imageVars,
                   graphVars, flagVars, backendVars, copyVars>>

\* Platform::resize: the event wakes the thread, flush returns and
\* Surface::resize runs
ResizeWake ==
    /\ pc = "resize_waiting"
    /\ fence >= next_value
    /\ last_value' = next_value
    /\ next_value' = FlushNextValue(next_value)
    /\ pc' = "idle"
    /\ render_targets' = SurfaceResize(render_targets)
    /\ target_last_use' = GetRenderTargets
    /\ UNCHANGED <<commands, submissions, allocators_created, gpu_queue, fence,
                   submitted, commonVars, ringVars, poolVars, blockVars, imageVars,
                   graphVars, flagVars, backendVars, copyVars>>

---------------------------------------------------------------------------
(* plinth/src/graphics/mod.rs: GraphicsContext *)

\* GraphicsContext::upload_image: Platform::upload_image records and submits
\* the copy and sets the image's last_use to the id submit returned; the
\* image is then put in the pool
ContextUploadImage(rows) ==
    /\ ~panicked
    /\ pc = "idle"
    /\ next_value <= MaxFenceValue
    /\ RecordUploadSubmit(<<Upload(rows * PitchAlignment, PlacementAlignment)>>, TRUE)
    /\ image_handles' = IF panicked' THEN image_handles
                        ELSE image_handles \cup {next_value}
    /\ UNCHANGED <<pc, overflow_checks, fence, frame, frame_allocs, markers, in_order,
                   ring_last, poolVars, blockVars, surfaceVars, graphVars, flagVars,
                   backendVars, copyVars>>

\* GraphicsContext::destroy_image of the image whose last_use is `last_use`:
\* the image is removed from the pool and dropped, which releases its
\* ID3D12Resource
DestroyImage(last_use) ==
    /\ ~panicked
    /\ pc = "idle"
    /\ last_use \in image_handles
    /\ image_handles' = image_handles \ {last_use}
    /\ UNCHANGED <<commonVars, ringVars, poolVars, queueVars, blockVars, surfaceVars,
                   graphVars, flagVars, backendVars, copyVars>>

---------------------------------------------------------------------------
(* graphics/src/render_graph.rs and plinth/src/graphics/render_graph.rs    *)

\* u16::MAX, scaled down
U16Max == 7
\* draw calls made on one graph: enough for the node ids to come round
MaxDraws == U16Max + 2
\* the highest node id that draw calls are given as parent
MaxParent == 1
\* vertices of the mesh handed to draw_immediate
MeshVertices == 2

\* `n as u16`
AsU16(n) == n % (U16Max + 1)

\* vertices and indices of one rectangle (DrawRect::to_vertices)
RectVertices == 4
RectIndices == <<0, 1, 2, 0, 2, 3>>

\* the mesh handed to draw_immediate: its last index names its last vertex
MeshIndices == <<0, MeshVertices - 1>>

\* RenderGraphCommand
RootCommand == [kind |-> "Root", first_index |-> 0, num_indices |-> 0]

DrawCommand(kind, first_index, num_indices) ==
    [kind |-> kind, first_index |-> AsU16(first_index),
     num_indices |-> AsU16(num_indices)]

\* the node that draw_immediate and draw_rect push
NewNode(command) ==
    [next |-> 0, first_child |-> 0, last_child |-> 0, command |-> command]

\* RenderGraph::default
GraphDefault == <<NewNode(RootCommand)>>

\* RenderGraph::iter_children: the node the iterator starts at
IterStart(g, node) ==
    g[node + 1].first_child

\* It::next, called until it returns None or `fuel` ids have been yielded
RECURSIVE IterNext(_, _, _)
IterNext(g, current, fuel) ==
    IF current = 0 THEN [ids |-> <<>>, done |-> TRUE]
    ELSE IF fuel = 0 THEN [ids |-> <<>>, done |-> FALSE]
    ELSE LET rest == IterNext(g, g[current + 1].next, fuel - 1)
         IN  [ids |-> <<current>> \o rest.ids, done |-> rest.done]

\* RenderGraph::iter_children(node), collected; `done` is FALSE if the
\* iterator has not ended after one id for every node of the graph
IterChildren(g, node) ==
    IterNext(g, IterStart(g, node), Len(g))

\* the end of draw_immediate and draw_rect: the pushed node is linked to its
\* parent and to the sibling before it
Link(g, parent, node_id) ==
    LET prev_sibling == g[parent + 1].last_child
        linked       == [g EXCEPT ![parent + 1].last_child = node_id]
    IN  IF g[parent + 1].first_child = 0
        THEN [linked EXCEPT ![parent + 1].first_child = node_id]
        ELSE [linked EXCEPT ![prev_sibling + 1].next = node_id]

\* `self.nodes.len() as u16`
NodeId(g) ==
    AsU16(Len(g))

\* draw_immediate: every index is moved by the vertex offset; try_into()
\* fails at the first one that does not fit in 16 bits, and the indices
\* behind it stay as they were
Rebase(indices, vertex_offset) ==
    LET fits(i) == \A j \in 1 .. i : indices[j] + vertex_offset <= U16Max
    IN  [panic   |-> ~fits(Len(indices)),
         indices |-> [i \in DOMAIN indices |->
                         IF fits(i) THEN indices[i] + vertex_offset
                         ELSE indices[i]]]

\* draw_rect: `i + vertex_offset as u16`; the addition overflows 16 bits
\* with a panic if overflow checks are on and wraps if they are off
RectRebase(indices, vertex_offset, checks) ==
    LET overflows == \E i \in DOMAIN indices :
                        indices[i] + AsU16(vertex_offset) > U16Max
    IN  [panic   |-> checks /\ overflows,
         indices |-> [i \in DOMAIN indices |->
                         AsU16(indices[i] + AsU16(vertex_offset))]]

\* ghost: what one draw call was given and what it found
Appended(kind, parent, node_id, indices, vertex_offset) ==
    [kind |-> kind, parent |-> parent, node_id |-> node_id,
     index |-> Len(nodes), first_index |-> Len(imm_indices),
     indices |-> indices, vertex_offset |-> vertex_offset]

\* RenderGraph::draw_immediate(parent, vertices, indices)
DrawImmediate(parent, vertices, indices) ==
    /\ ~panicked
    /\ Len(appended) < MaxDraws
    /\ imm_vertices' = imm_vertices + vertices
    /\ LET moved   == Rebase(indices, imm_vertices)
           node_id == NodeId(nodes)
           command == DrawCommand("DrawImmediate", Len(imm_indices), Len(indices))
       IN  /\ imm_indices' = imm_indices \o moved.indices
           /\ IF moved.panic
              THEN /\ panicked' = TRUE
                   /\ UNCHANGED <<nodes, appended>>
              ELSE /\ nodes' = Link(Append(nodes, NewNode(command)), parent, node_id)
                   /\ appended' = Append(appended,
                                     Appended("DrawImmediate", parent, node_id,
                                              indices, imm_vertices))
                   /\ UNCHANGED panicked
    /\ UNCHANGED <<overflow_checks, imm_rect_vertices, ringVars, poolVars,
                   queueVars, blockVars, surfaceVars, imageVars, flagVars, backendVars, copyVars>>

\* RenderGraph::draw_rect(parent, rect)
DrawRect(parent) ==
    /\ ~panicked
    /\ Len(appended) < MaxDraws
    /\ imm_rect_vertices' = imm_rect_vertices + RectVertices
    /\ LET moved   == RectRebase(RectIndices, imm_rect_vertices, overflow_checks)
           node_id == NodeId(nodes)
           command == DrawCommand("DrawRect", Len(imm_indices), Len(RectIndices))
       IN  IF moved.panic
           THEN /\ panicked' = TRUE
                /\ UNCHANGED <<nodes, imm_indices, appended>>
           ELSE /\ imm_indices' = imm_indices \o moved.indices
                /\ nodes' = Link(Append(nodes, NewNode(command)), parent, node_id)
                /\ appended' = Append(appended,
                                  Appended("DrawRect", parent, node_id,
                                           RectIndices, imm_rect_vertices))
                /\ UNCHANGED panicked
    /\ UNCHANGED <<overflow_checks, imm_vertices, ringVars, poolVars,
                   queueVars, blockVars, surfaceVars, imageVars, flagVars, backendVars, copyVars>>

\* the ids a caller can name as parent: RenderGraphNodeId::root() and the
\* ids that iter_children yields
ParentIds ==
    0 .. Min(MaxParent, Min(Len(nodes), U16Max + 1) - 1)

\* Platform::record_render_graph from the nodes on `stack`, the next one
\* first: the nodes in the order they are recorded.  `done` is FALSE if the
\* walk has not ended after `fuel` nodes, if an iterator does not end, or if
\* the assertion on a Root command fails.
RECURSIVE RecordRenderGraph(_, _, _)
RecordRenderGraph(g, stack, fuel) ==
    IF stack = <<>> THEN [order |-> <<>>, done |-> TRUE]
    ELSE IF fuel = 0 THEN [order |-> <<>>, done |-> FALSE]
    ELSE LET node_id  == Head(stack)
             children == IterChildren(g, node_id)
         IN  IF g[node_id + 1].command.kind = "Root" /\ node_id # 0
             THEN [order |-> <<>>, done |-> FALSE]
             ELSE IF ~children.done
             THEN [order |-> <<node_id>>, done |-> FALSE]
             ELSE LET rest == RecordRenderGraph(g, children.ids \o Tail(stack),
                                                fuel - 1)
                  IN  [order |-> <<node_id>> \o rest.order, done |-> rest.done]

\* the walk that Platform::draw makes: from the root, at most one visit more
\* than the graph has nodes
WalkFromRoot(g) ==
    RecordRenderGraph(g, <<0>>, Len(g) + 1)

---------------------------------------------------------------------------
(* renderer/src/backend/linear_allocator.rs and dx12/copy_queue.rs *)

\* size of the staging buffer: room for two placements
StagingSize == 2 * PlacementAlignment
\* address of the staging buffer: a mapped resource, aligned to a placement
StagingPtr == 0
\* calls of CopyQueue::flush that are explored
MaxCopyFlushes == 3

\* LinearAllocator::new(capacity, heap_ptr)
LinearAllocatorNew(capacity, heap_ptr) ==
    [capacity |-> capacity, heap_ptr |-> heap_ptr, bytes_allocated |-> 0]

\* LinearAllocator::alloc_size(size, align)
AllocSize(l, size, align) ==
    LET align_amount == AlignOffset(l.heap_ptr + l.bytes_allocated, align)
    IN  [alloc_size   |-> align_amount + BackendNextMultipleOf(size, align),
         align_amount |-> align_amount]

\* LinearAllocator::can_fit(size, align)
CanFit(l, size, align) ==
    l.bytes_allocated + AllocSize(l, size, align).alloc_size <= l.capacity

\* LinearAllocator::allocate(size, align)
LinearAllocate(l, size, align) ==
    LET sized == AllocSize(l, size, align)
    IN  IF l.bytes_allocated + sized.alloc_size > l.capacity
        THEN [kind |-> "OutOfMemory", allocator |-> l]
        ELSE [kind |-> "Ok", offset |-> l.bytes_allocated + sized.align_amount,
              allocator |-> [l EXCEPT !.bytes_allocated = @ + sized.alloc_size]]

\* LinearAllocator::clear
LinearClear(l) ==
    [l EXCEPT !.bytes_allocated = 0]

\* what ID3D12CommandQueue::Wait enqueues
Wait(value) ==
    [type |-> "wait", value |-> value]

\* the copy commands that one flush hands to the GPU: they read the staging
\* bytes below `bytes`
ExecuteCopies(id, bytes) ==
    [type |-> "execute", value |-> id, bytes |-> bytes]

\* ImageData::read_id, which nothing sets after the image is created
ReadId == 0

\* CopyQueue::new
CopyQueueNew ==
    [flushing |-> FALSE, fence_value |-> 0, images |-> 0,
     buffer_allocator |-> LinearAllocatorNew(StagingSize, StagingPtr),
     list_closed |-> FALSE, waiting |-> 0]

\* CopyQueue::flush: the queue afterwards and what the GPU is handed.  The
\* command list is closed and never reset; Close on a list that is already
\* closed is an invalid call whose outcome (close_ok) lies with the runtime:
\* if it fails, unwrap panics behind the Wait.
CopyQueueFlush(q, close_ok) ==
    LET fails == q.list_closed /\ ~close_ok
        id    == q.fence_value + 1
    IN  IF fails
        THEN [panic |-> TRUE, queue |-> [q EXCEPT !.images = 0],
              commands |-> <<Wait(ReadId)>>]
        ELSE [panic |-> FALSE,
              queue |-> [q EXCEPT !.images = 0, !.fence_value = id,
                                  !.flushing = TRUE, !.list_closed = TRUE],
              commands |-> <<Wait(ReadId),
                             ExecuteCopies(id, q.buffer_allocator.bytes_allocated),
                             Signal(id)>>]

\* the value that copy_pixels hands to SetEventOnCompletion
AwaitedValue(q) ==
    1

\* CopyQueue::copy_pixels behind its wait, for a buffer of `rows` rows of one
\* pitch each: the size assertion, a flush if the buffer does not fit, the
\* allocation, which is unwrapped, and the ImageCopy that is pushed
CopyPixelsBody(q, rows, close_ok) ==
    LET buffer_size == PitchAlignment * rows
        fits    == CanFit(q.buffer_allocator, buffer_size, PlacementAlignment)
        flushed == IF fits
                   THEN [panic |-> FALSE, queue |-> q, commands |-> <<>>]
                   ELSE CopyQueueFlush(q, close_ok)
        found   == LinearAllocate(flushed.queue.buffer_allocator, buffer_size,
                                  PlacementAlignment)
    IN  IF buffer_size > q.buffer_allocator.capacity
        THEN [panic |-> TRUE, queue |-> q, commands |-> <<>>, offset |-> 0]
        ELSE IF flushed.panic \/ found.kind # "Ok"
        THEN [panic |-> TRUE, queue |-> flushed.queue,
              commands |-> flushed.commands, offset |-> 0]
        ELSE [panic |-> FALSE,
              queue |-> [flushed.queue EXCEPT !.buffer_allocator = found.allocator,
                                              !.images = @ + 1],
              commands |-> flushed.commands, offset |-> found.offset]

\* CopyQueue::copy_pixels once the event is set: the staging allocator is
\* cleared and the command allocator is reset
CopyPixelsWoken(q) ==
    [q EXCEPT !.flushing = FALSE, !.waiting = 0,
              !.buffer_allocator = LinearClear(q.buffer_allocator)]

\* ghost: what a call of copy_pixels did
CopiedPixels(cleared, result) ==
    [op |-> "copy_pixels", cleared |-> cleared, panic |-> result.panic,
     offset |-> result.offset, signalled |-> copy_queue.fence_value,
     completed |-> copy_gpu.fence,
     flushed |-> result.queue.fence_value # copy_queue.fence_value]

\* CopyQueue::flush
CopyFlush(close_ok) ==
    /\ ~panicked
    /\ copy_queue.waiting = 0
    /\ copy_queue.fence_value < MaxCopyFlushes
    /\ LET r == CopyQueueFlush(copy_queue, close_ok)
       IN  /\ panicked' = r.panic
           /\ copy_queue' = r.queue
           /\ copy_gpu' = [copy_gpu EXCEPT !.commands = @ \o r.commands]
           /\ copy_last' = [op |-> "flush", panic |-> r.panic]
    /\ UNCHANGED <<overflow_checks, ringVars, poolVars, queueVars, blockVars,
                   surfaceVars, imageVars, graphVars, flagVars, backendVars>>

\* CopyQueue::copy_pixels with no flush outstanding
CopyPixels(rows, close_ok) ==
    /\ ~panicked
    /\ copy_queue.waiting = 0
    /\ ~copy_queue.flushing
    /\ copy_queue.fence_value < MaxCopyFlushes
    /\ LET r == CopyPixelsBody(copy_queue, rows, close_ok)
       IN  /\ panicked' = r.panic
           /\ copy_queue' = r.queue
           /\ copy_gpu' = [copy_gpu EXCEPT !.commands = @ \o r.commands]
           /\ copy_last' = CopiedPixels(FALSE, r)
    /\ UNCHANGED <<overflow_checks, ringVars, poolVars, queueVars, blockVars,
                   surfaceVars, imageVars, graphVars, flagVars, backendVars>>

\* CopyQueue::copy_pixels with a flush outstanding: the thread sleeps on the
\* event
CopyPixelsWait(rows) ==
    /\ ~panicked
    /\ copy_queue.waiting = 0
    /\ copy_queue.flushing
    /\ copy_queue' = [copy_queue EXCEPT !.waiting = rows]
    /\ UNCHANGED <<copy_gpu, copy_last, commonVars, ringVars, poolVars, queueVars,
                   blockVars, surfaceVars, imageVars, graphVars, flagVars,
                   backendVars>>

\* CopyQueue::copy_pixels: the event is set, the call goes on to its end
CopyPixelsWake(close_ok) ==
    /\ ~panicked
    /\ copy_queue.waiting > 0
    /\ copy_gpu.fence >= AwaitedValue(copy_queue)
    /\ copy_queue.fence_value < MaxCopyFlushes
    /\ LET r == CopyPixelsBody(CopyPixelsWoken(copy_queue), copy_queue.waiting,
                               close_ok)
       IN  /\ panicked' = r.panic
           /\ copy_queue' = r.queue
           /\ copy_gpu' = [copy_gpu EXCEPT !.commands = @ \o r.commands]
           /\ copy_last' = CopiedPixels(TRUE, r)
    /\ UNCHANGED <<overflow_checks, ringVars, poolVars, queueVars, blockVars,
                   surfaceVars, imageVars, graphVars, flagVars, backendVars>>

\* the GPU takes the next command off the copy queue: a Wait holds the queue
\* until the fence has reached its value, a Signal sets the fence
CopyGpuStep ==
    /\ copy_gpu.commands # <<>>
    /\ LET command == Head(copy_gpu.commands)
       IN  /\ command.type = "wait" => copy_gpu.fence >= command.value
           /\ copy_gpu' = [commands |-> Tail(copy_gpu.commands),
                           fence |-> IF command.type = "signal" THEN command.value
                                     ELSE copy_gpu.fence]
    /\ UNCHANGED <<copy_queue, copy_last, commonVars, ringVars, poolVars, queueVars,
                   blockVars, surfaceVars, imageVars, graphVars, flagVars,
                   backendVars>>

\* the copy commands the GPU has not finished
PendingCopies ==
    {copy_gpu.commands[i] : i \in {j \in DOMAIN copy_gpu.commands :
                                      copy_gpu.commands[j].type = "execute"}}

\* the staging allocator was cleared only with the fence at the value of the
\* latest flush
ClearedAfterCompletion ==
    (copy_last.op = "copy_pixels" /\ copy_last.cleared)
        => copy_last.completed >= copy_last.signalled

\* the bytes that copy_pixels has just handed out are not bytes that copy
\* commands of an earlier flush have yet to read
StagedBytesNotOverwritten ==
    (copy_last.op = "copy_pixels" /\ ~copy_last.panic /\ ~copy_last.flushed)
        => \A c \in PendingCopies : c.bytes <= copy_last.offset

---------------------------------------------------------------------------
(* Submission queue: properties *)

\* the GPU has not finished the command list submitted under `id`
ExecPending(id) ==
    \E i \in DOMAIN gpu_queue :
        gpu_queue[i].type = "execute" /\ gpu_queue[i].value = id

\* C1: free_frame is called on a frame's marker only after the GPU has
\* executed the command list submitted with that marker, and no later
\* submission is given ring bytes that a not yet executed submission reads.
C1_FreedOnlyAfterExecution ==
    /\ \A k \in DOMAIN submitted :
          submitted[k].freed => ~ExecPending(submitted[k].id)
    /\ \A j, k \in DOMAIN submitted :
          (j < k /\ ExecPending(submitted[j].id))
              => submitted[j].bytes \cap submitted[k].bytes = {}

\* C2: for every id submit returned, from the first submission on,
\* is_complete(id) is true only if the GPU has finished executing the
\* command list submitted under id.
C2_CompleteOnlyAfterExecution ==
    \A k \in DOMAIN submitted :
        IsComplete(last_value, fence, submitted[k].id)
            => ~ExecPending(submitted[k].id)

\* this step is a submit
Submits == Len(submitted') = Len(submitted) + 1

\* next_value never decreases and a submit returns it and adds one to it
NextValueStep ==
    /\ next_value' >= next_value
    /\ Submits => /\ submitted'[Len(submitted')].id = next_value
                  /\ next_value' = next_value + 1

\* the ids submit returned so far are strictly increasing
IdsIncrease ==
    \A j, k \in DOMAIN submitted : j < k => submitted[j].id < submitted[k].id

\* C20: the SubmissionIds of successive submit calls are strictly
\* increasing, also with flush calls in between; next_value never decreases
\* and each submit increases it by exactly one.
C20_SubmissionIdsIncrease ==
    [][NextValueStep]_vars /\ []IdsIncrease

C20_Witness ==
    \E k \in DOMAIN submitted :
        /\ k + 1 \in DOMAIN submitted
        /\ submitted[k + 1].id > submitted[k].id + 1
        /\ pc = "idle"

\* this step ran Graphics::record: it went on to submit, or the frame's
\* free_frame or allocations panicked
Records == Submits \/ (panicked' /\ ~panicked)

\* the fence has reached the id of the oldest outstanding submission
FrontComplete ==
    submissions # <<>> /\ fence >= Head(submissions).fence_value

\* the outstanding submissions a step leaves, without the one it submitted
KeptSubmissions ==
    IF Submits THEN SubSeq(submissions', 1, Len(submissions') - 1) ELSE submissions'

\* what one step does to the FIFO and to the command allocators
RecordStep ==
    /\ ~Records => /\ submissions' = submissions
                   /\ allocators_created' = allocators_created
    /\ (Records /\ FrontComplete) =>
          /\ KeptSubmissions = Tail(submissions)
          /\ allocators_created' = allocators_created
          /\ Submits =>
                submissions'[Len(submissions')].allocator = Head(submissions).allocator
          /\ (~panicked' /\ pc = "idle") =>
                \E k \in DOMAIN submitted' :
                    /\ submitted'[k].id = Head(submissions).fence_value
                    /\ submitted'[k].marker = Head(submissions).data
                    /\ submitted'[k].freed
    /\ (Records /\ ~FrontComplete) =>
          /\ KeptSubmissions = submissions
          /\ allocators_created' = allocators_created + 1
          /\ Submits =>
                /\ submissions'[Len(submissions')].allocator = allocators_created'
                /\ \A i \in DOMAIN submissions :
                      submissions[i].allocator # allocators_created'
          /\ \A k \in DOMAIN submitted : submitted'[k] = submitted[k]

\* the FIFO holds the latest submissions, oldest first, each with the
\* payload it was submitted with
FifoInSubmissionOrder ==
    /\ Len(submissions) <= Len(submitted)
    /\ \A i \in DOMAIN submissions :
          LET k == Len(submitted) - Len(submissions) + i
          IN  /\ submissions[i].fence_value = submitted[k].id
              /\ submissions[i].data = submitted[k].marker

\* C21: record pops the oldest outstanding submission and returns its
\* payload and its command allocator exactly when the fence has reached that
\* submission's id; otherwise it returns no payload, creates a new allocator
\* and leaves the FIFO alone.  At most one submission is reclaimed per call,
\* and payloads come back in submission order.
C21_RecordReclaimsOldestComplete ==
    [][RecordStep]_vars /\ []FifoInSubmissionOrder

C21_Witness ==
    /\ Len(submitted) >= 3
    /\ allocators_created = 2
    /\ Len(submissions) = 2
    /\ \E k \in DOMAIN submitted : submitted[k].freed

\* this step is the return of Graphics::flush
FlushReturns == pc \in {"flush", "waiting"} /\ pc' = "idle"

\* when flush returns, nothing submitted is left on the GPU queue and
\* is_complete answers true for every id handed out
FlushStep ==
    FlushReturns =>
        \A k \in DOMAIN submitted :
            /\ ~ExecPending(submitted[k].id)'
            /\ IsComplete(last_value', fence', submitted[k].id)

\* C22: when flush returns, the GPU has executed every command list
\* submitted before the flush, and is_complete(id) is true for every id that
\* submit returned before the flush.
C22_FlushWaitsForAllSubmitted ==
    [][FlushStep]_vars

\* a flush has returned after the latest of several submits
C22_Witness ==
    /\ pc = "idle"
    /\ Len(submitted) >= 2
    /\ next_value = submitted[Len(submitted)].id + 2
    /\ gpu_queue = <<>>

\* this step belongs to a call of Graphics::flush, or happens during one
InFlush == pc \in {"flush", "waiting"} \/ pc' \in {"flush", "waiting"}

FlushKeepsFifo ==
    /\ InFlush => submissions' = submissions
    /\ FlushReturns =>
          \A i \in DOMAIN submissions' :
              /\ fence' >= submissions'[i].fence_value
              /\ IsComplete(last_value', fence', submissions'[i].fence_value)

OnlyFlushWaits ==
    /\ Records => pc' = "idle"
    /\ pc = "new" => pc' \in {"new", "idle"}
    /\ pc = "idle" => pc' \in {"idle", "flush"}
    /\ (pc' = "flush" /\ pc # "flush") =>
          /\ ~Records
          /\ gpu_queue' = Append(gpu_queue, Signal(next_value))
    /\ (pc' = "waiting" /\ pc # "waiting") => (pc = "flush" /\ fence < next_value)

\* a flush whose value the fence has reached returns
FlushWaitEnds ==
    (pc \in {"flush", "waiting"} /\ fence >= next_value) ~> (pc = "idle")

\* C24: record, submit and is_complete never wait for the GPU: whatever
\* the GPU has done, each of these calls returns.  Only flush / wait_until
\* wait on the fence, and once the fence has reached the awaited value they
\* return.
C24_OnlyFlushBlocks ==
    [][OnlyFlushWaits]_vars /\ FlushWaitEnds

\* the GPU has not made a single step, the fence has never advanced, and
\* every call of record and submit that the bound allows has returned
C24_Witness ==
    /\ pc = "idle"
    /\ fence = 0
    /\ Len(gpu_queue) = 2 * Len(submitted) + 1
    /\ Len(submitted) = MaxFenceValue

\* this step replaces the swap-chain buffers
Resizes == render_targets' # render_targets

\* C25: resize calls flush and waits for it to return before the swap-chain
\* buffers are released and resized: at the moment of the resize no
\* submitted command list, so none that targets one of the surface's images,
\* is still to be executed by the GPU, and every id handed out is complete.
C25_ResizeAfterFlush ==
    [][Resizes =>
          \A k \in DOMAIN submitted :
              /\ ~ExecPending(submitted[k].id)
              /\ fence >= submitted[k].id]_vars

\* the buffers were resized after frames had been drawn to them, and drawn
\* to again afterwards
C25_Witness ==
    /\ render_targets >= 1
    /\ pc = "idle"
    /\ \E k \in DOMAIN submitted :
          /\ k >= 2
          /\ k + 1 \in DOMAIN submitted
          /\ submitted[k + 1].id > submitted[k].id + 1

\* the images whose GPU resource this step releases
\* a step in which Platform::draw runs and returns
DrawReturns ==
    /\ pc = "idle" /\ pc' = "idle"
    /\ ~panicked'
    /\ <<next_value, last_value, commands, submissions, allocators_created,
         allocator, target_last_use>>' #
       <<next_value, last_value, commands, submissions, allocators_created,
         allocator, target_last_use>>

\* the submit of a draw: one id taken, one command list and one Signal handed
\* to the GPU, one submission with the marker of the frame's uploads appended
\* behind the submissions that record() left, and the id stored in the target
DrawSubmitsOnce ==
    LET kept == IF FrontComplete THEN Tail(submissions) ELSE submissions
        last == submissions'[Len(submissions')]
    IN  /\ next_value' = next_value + 1
        /\ Len(submitted') = Len(submitted) + 1
        /\ gpu_queue' = gpu_queue \o <<Execute(next_value, last.allocator),
                                       Signal(next_value)>>
        /\ Len(submissions') = Len(kept) + 1
        /\ SubSeq(submissions', 1, Len(kept)) = kept
        /\ last.fence_value = next_value
        /\ last.data = [end |-> allocator'.bytes_allocated,
                        start |-> allocator.bytes_allocated]
        /\ target_last_use' = next_value
        /\ target_last_use' > target_last_use

\* C27: every Platform::draw that returns performs exactly one submit: the
\* submission counter advances by one, one submission carrying the frame's
\* FrameMarker is appended to the FIFO, and target.last_use becomes the id
\* of that submission, which is greater than the last_use the target had.
C27_DrawSubmitsOnce ==
    [][DrawReturns => DrawSubmitsOnce]_vars

C27_Witness ==
    /\ pc = "idle"
    /\ Len(submitted) >= 3
    /\ Len(submissions) >= 2
    /\ target_last_use = submitted[Len(submitted)].id
    /\ submissions[Len(submissions)].data.end > submissions[Len(submissions)].data.start

Dropped == image_handles \ image_handles'

\* C26: destroy_image does not release an image's GPU resource while the
\* image's last_use is not complete.
C26_DestroyWaitsForLastUse ==
    [][\A last_use \in Dropped :
          /\ IsComplete(last_value, fence, last_use)
          /\ ~ExecPending(last_use)]_vars

\* the ids is_complete can be asked about
FenceValues == 0 .. (MaxFenceValue + 2)

\* an id that is not newer than the cache is answered from the cache: the
\* answer is TRUE and the cache stays, whatever the fence holds
AnsweredFromCache ==
    \A id \in FenceValues : id <= last_value =>
        \A completed \in FenceValues :
            /\ IsCompleteLast(last_value, completed, id) = last_value
            /\ IsComplete(last_value, completed, id)

\* is_complete is downward closed in the id
CompleteBelow ==
    \A a, b \in FenceValues :
        (b <= a /\ IsComplete(last_value, fence, a)) => IsComplete(last_value, fence, b)

\* the cache never decreases, and an id that is complete stays complete
StaysComplete ==
    /\ last_value' >= last_value
    /\ \A id \in FenceValues :
          IsComplete(last_value, fence, id) => IsComplete(last_value', fence', id)

\* C32: is_complete(id) reads the fence only when id is newer than the cached
\* last_value; the cache never decreases, so an id reported complete is
\* reported complete ever after, and is_complete(a) implies is_complete(b)
\* for every b <= a.
C32_IsCompleteCachedAndMonotone ==
    [](AnsweredFromCache /\ CompleteBelow) /\ [][StaysComplete]_vars

C32_Witness ==
    /\ pc = "idle"
    /\ last_value >= 2
    /\ fence > last_value
    /\ submissions # <<>>
    /\ Head(submissions).fence_value < last_value

\* between the calls of the queue the cache is behind the counter
CacheBehindCounter ==
    pc \in {"new", "idle"} => last_value < next_value

\* the id that a submit assigns has not been reached by the fence before
FreshId ==
    Submits => fence < next_value

\* C38: the cached last_value is strictly less than next_value in every
\* state of the queue: the fence has only reached values that a submit or a
\* flush consumed, so no value signalled before is assigned as the
\* SubmissionId of a new submission.
C38_LastValueBelowNextValue ==
    []CacheBehindCounter /\ [][FreshId]_vars

\* the submissions whose marker has not been handed to free_frame, oldest
\* first
Unfreed ==
    SelectSeq(submitted, LAMBDA s : ~s.freed)

\* what Graphics::record is about to return
Returned ==
    Record(submissions, last_value, fence, allocators_created).value

\* Platform::draw and ::upload_image: the marker that record returns is the
\* oldest one not yet freed, and the assertion of free_frame passes on it
RecordReturnsOldest ==
    (Records /\ pc = "idle" /\ Returned.some) =>
        /\ Unfreed # <<>>
        /\ Head(Unfreed).marker = Returned.v
        /\ Head(Unfreed).id = Head(submissions).fence_value
        /\ FreeFrameAssertion(allocator, Returned.v)

\* GraphicsContext::draw: the frames that begin_frame drains are the oldest
\* ones not yet freed, in order, and every assertion of free_frame passes
DrainFreesOldest ==
    (Records /\ pc = "context") =>
        LET count == CompletePrefix(submissions, last_value, fence).count
        IN  /\ count <= Len(Unfreed)
            /\ \A i \in 1 .. count :
                  /\ Unfreed[i].marker = submissions[i].data
                  /\ Unfreed[i].id = submissions[i].fence_value
            /\ FreeFrames(allocator, SubSeq(submissions, 1, count)).passed

\* C37: in every sequence of Platform::new, draw and upload_image calls,
\* whenever the GPU completes its work, the marker that record hands back is
\* the oldest one not yet freed, and the assertion of free_frame
\* (marker.start == bytes_freed) passes; the same holds of the markers of
\* the completed frames that GraphicsContext::begin_frame drains.
C37_MarkersFreedOldestFirst ==
    [][RecordReturnsOldest /\ DrainFreesOldest]_vars

C37_Witness ==
    /\ pc = "idle"
    /\ ~panicked
    /\ Len(submitted) = 4
    /\ submitted[1].freed /\ submitted[2].freed /\ submitted[3].freed
    /\ submitted[3].marker.end > submitted[3].marker.start
    /\ allocator.bytes_freed > allocator.capacity

---------------------------------------------------------------------------
(* Render graph: properties *)

\* the nodes appended with parent `p`, oldest first, each named by its index
\* in RenderGraph::nodes
ChildrenOf(p) ==
    LET calls == SelectSeq(appended, LAMBDA a : a.parent = p)
    IN  [i \in DOMAIN calls |-> calls[i].index]

\* the ids a node of the graph can be named by
NodeIds ==
    0 .. Min(Len(nodes) - 1, U16Max)

\* C28: for every node p, iter_children(p) ends and yields exactly the
\* nodes that were appended as children of p, in the order they were
\* appended.  (iter_children takes &self: the graph is the same before and
\* after, and a second call computes the same sequence from it.)
C28_IterChildrenInInsertionOrder ==
    \A p \in NodeIds :
        /\ IterChildren(nodes, p).done
        /\ IterChildren(nodes, p).ids = ChildrenOf(p)

\* the depth-first order of the nodes appended so far, parents first and
\* siblings in the order they were appended
RECURSIVE Preorder(_)
RECURSIVE PreorderAll(_)
Preorder(n) ==
    <<n>> \o PreorderAll(ChildrenOf(n))

PreorderAll(siblings) ==
    IF siblings = <<>> THEN <<>>
    ELSE Preorder(Head(siblings)) \o PreorderAll(Tail(siblings))

\* C29: a new graph holds the Root node alone, at id 0 and without
\* children; after any draw calls the walk of record_render_graph from the
\* root ends, visits every node exactly once in depth-first order with
\* siblings in insertion order, and Root is the command of node 0 only.
C29_WalkVisitsEveryNodeOnce ==
    /\ appended = <<>> =>
          /\ nodes = <<NewNode(RootCommand)>>
          /\ IterChildren(nodes, 0) = [ids |-> <<>>, done |-> TRUE]
    /\ WalkFromRoot(nodes).done
    /\ WalkFromRoot(nodes).order = Preorder(0)
    /\ Len(WalkFromRoot(nodes).order) = Len(nodes)
    /\ \A i \in DOMAIN nodes : (nodes[i].command.kind = "Root") = (i = 1)

\* C30: every node appended by a draw call has an id that is not 0 and not
\* the id of an earlier node; its first_index is the length the index buffer
\* had before the call, its num_indices the number of indices the call
\* appended, and every index it appended is the caller's index plus the
\* number of vertices that were in the vertex buffer before the call.
C30_AppendedNodesAreExact ==
    \A k \in DOMAIN appended :
        LET a    == appended[k]
            node == nodes[a.index + 1]
        IN  /\ a.node_id # 0
            /\ \A j \in 1 .. (k - 1) : appended[j].node_id # a.node_id
            /\ node.command.kind = a.kind
            /\ node.command.first_index = a.first_index
            /\ node.command.num_indices = Len(a.indices)
            /\ \A i \in DOMAIN a.indices :
                  imm_indices[a.first_index + i] = a.indices[i] + a.vertex_offset

---------------------------------------------------------------------------
(* FlagVec: properties *)

\* ghost: the value of the latest of the first n set calls at index i, FALSE
\* if there is none
LastSet(i, n) ==
    LET ks == {k \in 1 .. n : flag_calls[k].index = i}
    IN  IF ks = {} THEN FALSE
        ELSE flag_calls[CHOOSE k \in ks : \A j \in ks : j <= k].value

\* ghost: the highest index among the first n set calls, plus one
HighestSet(n) ==
    IF n = 0 THEN 0
    ELSE 1 + (CHOOSE i \in {flag_calls[k].index : k \in 1 .. n} :
                 \A k \in 1 .. n : flag_calls[k].index <= i)

\* C31: after any set calls, len() is the highest index ever passed to set
\* plus one and has never decreased; get(i) is the value last set at i, FALSE
\* if i was never set or is out of bounds; set(i, v) returned the previous
\* value at i (and so changed no other index).
C31_FlagVecLenAndValues ==
    /\ FlagVecLen(flags) = HighestSet(Len(flag_calls))
    /\ \A k \in DOMAIN flag_calls :
          /\ flag_calls[k].len = HighestSet(k)
          /\ flag_calls[k].returned = LastSet(flag_calls[k].index, k - 1)
    /\ \A i \in FlagIndices \cup {FlagWordBits + FlagWordBits} :
          FlagVecGet(flags, i) = LastSet(i, Len(flag_calls))

---------------------------------------------------------------------------
PoolInit ==
    /\ items = PoolNew.items
    /\ free_list = PoolNew.free_list
    /\ history = <<>>
    /\ freed_order = <<0>>
    /\ pool_last = NoCall

BlockInit ==
    /\ blocks = BlockAllocatorNew(BlockSize, MaxBlocks)
    /\ first_free_block = 0
    /\ outstanding = {}
    /\ valid_frees = TRUE
    /\ expected = [i \in 1 .. MaxBlocks |-> (i - 1) * BlockSize]
    /\ block_last = NoCall

\* Surface::new: the render targets wrap the first buffers of the swap chain
SurfaceInit ==
    /\ render_targets = 0
    /\ target_last_use = GetRenderTargets

\* FlagVec::new
BackendInit ==
    /\ ring_allocator = RingAllocatorNew(Capacity, 1)
    /\ ring_held = <<>>
    /\ ring_call = NoCall

CopyInit ==
    /\ copy_queue = CopyQueueNew
    /\ copy_gpu = [commands |-> <<Signal(0)>>, fence |-> 0]
    /\ copy_last = NoCall

FlagInit ==
    /\ flags = FlagVecNew
    /\ flag_calls = <<>>

\* RenderGraph::new
GraphInit ==
    /\ nodes = GraphDefault
    /\ imm_indices = <<>>
    /\ imm_vertices = 0
    /\ imm_rect_vertices = 0
    /\ appended = <<>>

\* GraphicsContext::new: the pool of images is empty
ImageInit ==
    image_handles = {}

\* Graphics::new: the fence is created at 0 and next_value is signalled but
\* not consumed
QueueInit ==
    /\ pc = "new"
    /\ next_value = 1
    /\ last_value = 0
    /\ commands = 0
    /\ submissions = <<>>
    /\ allocators_created = 0
    /\ gpu_queue = <<Signal(1)>>
    /\ fence = 0
    /\ submitted = <<>>

RingGhostInit ==
    /\ frame = NoFrame
    /\ frame_allocs = {}
    /\ markers = <<>>
    /\ in_order = TRUE
    /\ ring_last = NoCall

RingInit ==
    /\ allocator = AllocatorNew(Capacity)
    /\ RingGhostInit

InitRing ==
    /\ overflow_checks \in BOOLEAN
    /\ panicked = FALSE
    /\ RingInit
    /\ PoolInit
    /\ QueueInit
    /\ BlockInit
    /\ SurfaceInit
    /\ ImageInit
    /\ GraphInit
    /\ FlagInit
    /\ BackendInit
    /\ CopyInit

NextRing ==
    \/ BeginFrame
    \/ \E size \in Sizes, alignment \in Alignments : FrameAllocate(size, alignment)
    \/ FrameFinish
    \/ FrameDrop
    \/ \E i \in 1 .. MaxFrames : FreeFrame(i)

SpecRing == InitRing /\ [][NextRing]_vars

InitPool ==
    /\ overflow_checks = TRUE
    /\ panicked = FALSE
    /\ RingInit
    /\ PoolInit
    /\ QueueInit
    /\ BlockInit
    /\ SurfaceInit
    /\ ImageInit
    /\ GraphInit
    /\ FlagInit
    /\ BackendInit
    /\ CopyInit

NextPool ==
    \/ Insert(FreshValue)
    \/ \E handle \in KnownHandles : Remove(handle)
    \/ \E index \in 0 .. U32Max : RemoveRaw(index)
    \/ \E handle \in KnownHandles : GetMut(handle, Mutated)

SpecPool == InitPool /\ [][NextPool]_vars

InitQueue ==
    /\ overflow_checks \in BOOLEAN
    /\ panicked = FALSE
    /\ allocator = AllocatorNew(UploadBufferSize)
    /\ RingGhostInit
    /\ PoolInit
    /\ QueueInit
    /\ BlockInit
    /\ SurfaceInit
    /\ ImageInit
    /\ GraphInit
    /\ FlagInit
    /\ BackendInit
    /\ CopyInit

NextQueue ==
    \/ PlatformNew
    \/ \E indices \in {0, MaxElements}, vertices \in {0, MaxElements} :
          Draw(indices, vertices)
    \/ \E rows \in {1, MaxRows} : UploadImage(rows)
    \/ PollFence
    \/ FlushSignal
    \/ FlushTest
    \/ FlushWake
    \/ GpuStep

SpecQueue == InitQueue /\ [][NextQueue]_vars

\* The thread that called flush is scheduled: it makes its test, and it wakes
\* once the event is set.  Nothing is assumed of the GPU, which may stop for
\* good at any point.
SpecQueueLive ==
    InitQueue /\ [][NextQueue]_vars /\ WF_vars(FlushTest) /\ WF_vars(FlushWake)

\* frames are drawn to the images of a surface that is resized now and then
NextSurface ==
    \/ PlatformNew
    \/ \E indices \in {0, MaxElements}, vertices \in {0, MaxElements} :
          Draw(indices, vertices)
    \/ ResizeSignal
    \/ ResizeTest
    \/ ResizeWake
    \/ GpuStep

SpecSurface == InitQueue /\ [][NextSurface]_vars

\* images are uploaded and destroyed through the GraphicsContext
NextImage ==
    \/ PlatformNew
    \/ \E rows \in {1, MaxRows} : ContextUploadImage(rows)
    \/ \E last_use \in 1 .. MaxFenceValue : DestroyImage(last_use)
    \/ FlushSignal
    \/ FlushTest
    \/ FlushWake
    \/ GpuStep

SpecImage == InitQueue /\ [][NextImage]_vars

InitGraph ==
    /\ overflow_checks \in BOOLEAN
    /\ panicked = FALSE
    /\ RingInit
    /\ PoolInit
    /\ QueueInit
    /\ BlockInit
    /\ SurfaceInit
    /\ ImageInit
    /\ GraphInit
    /\ FlagInit
    /\ BackendInit
    /\ CopyInit

NextGraph ==
    \/ \E parent \in ParentIds : DrawRect(parent)
    \/ \E parent \in ParentIds : DrawImmediate(parent, MeshVertices, MeshIndices)

SpecGraph == InitGraph /\ [][NextGraph]_vars

InitBlock ==
    /\ overflow_checks = TRUE
    /\ panicked = FALSE
    /\ RingInit
    /\ PoolInit
    /\ QueueInit
    /\ BlockInit
    /\ SurfaceInit
    /\ ImageInit
    /\ GraphInit
    /\ FlagInit
    /\ BackendInit
    /\ CopyInit

NextBlock ==
    \/ BlockAllocate
    \/ \E offset \in 0 .. (MaxBlocks * BlockSize) : BlockFree(offset)

SpecBlock == InitBlock /\ [][NextBlock]_vars

NextFlag ==
    \E index \in FlagIndices, value \in BOOLEAN : FlagSet(index, value)

SpecFlag == InitBlock /\ [][NextFlag]_vars

InitAllocators ==
    /\ overflow_checks \in BOOLEAN
    /\ panicked = FALSE
    /\ RingInit
    /\ PoolInit
    /\ QueueInit
    /\ BlockInit
    /\ SurfaceInit
    /\ ImageInit
    /\ GraphInit
    /\ FlagInit
    /\ \E heap_ptr \in HeapPtrs :
          ring_allocator = RingAllocatorNew(Capacity, heap_ptr)
    /\ ring_held = <<>>
    /\ ring_call = NoCall
    /\ CopyInit

\* a caller that works with a RingAllocator, or with an Allocator and its
\* frames
NextAllocators ==
    \/ ring_last = NoCall /\ \E size \in Sizes, align \in Alignments :
                                RingAllocate(size, align)
    \/ ring_last = NoCall /\ \E i \in 1 .. MaxServed : RingFree(i)
    \/ ring_call = NoCall /\ NextRing

SpecAllocators == InitAllocators /\ [][NextAllocators]_vars

\* frames are submitted by the Platform, or by the GraphicsContext that keeps
\* frames_in_flight, while the GPU works through them at its own pace
NextFrames ==
    \/ PlatformNew
    \/ \E indices \in {0, MaxElements}, vertices \in {0, MaxElements} :
          Draw(indices, vertices)
    \/ \E rows \in {1, MaxRows} : UploadImage(rows)
    \/ ContextNew
    \/ \E vertices \in {0, MaxElements}, indices \in {0, MaxElements},
          rects \in {0, MaxElements} : ContextDraw(vertices, indices, rects)
    \/ GpuStep

SpecFrames == InitQueue /\ [][NextFrames]_vars

\* pixels are copied through a CopyQueue that is flushed now and then
NextCopy ==
    \/ \E close_ok \in BOOLEAN : CopyFlush(close_ok)
    \/ \E rows \in {1, MaxRows}, close_ok \in BOOLEAN : CopyPixels(rows, close_ok)
    \/ \E rows \in {1, MaxRows} : CopyPixelsWait(rows)
    \/ \E close_ok \in BOOLEAN : CopyPixelsWake(close_ok)
    \/ CopyGpuStep

SpecCopy == InitBlock /\ [][NextCopy]_vars

===========================================================================
